---- MODULE Spec2Model ----
(***************************************************************************)
(* A model of viola: selective encryption of TOML configuration trees.     *)
(*                                                                         *)
(*   package viola (Load, Save, Transform, Options)                        *)
(*   package walk  (Walk, walkValue, walkMap, walkSlice)                   *)
(*   package enc   (KeySources, Encrypt, Decrypt)                          *)
(*                                                                         *)
(* The libraries the code calls are modelled by what they do on the values *)
(* the code hands them: encoding/json (Marshal, Unmarshal into any),       *)
(* BurntSushi/toml v1.3.2 (Encoder.Encode, Unmarshal into map[string]any)  *)
(* and filippo.io/age v1.2.1 (Encrypt, Decrypt, armor).                    *)
(***************************************************************************)
EXTENDS Integers, Sequences, FiniteSets, TLC

(***************************************************************************)
(* Strings.  A Go string is a sequence of chunks; a chunk is a record      *)
(* [c |-> name].  A chunk stands for the run of bytes its name spells:     *)
(* "P" is "private_", "S" is "secret", "B" is the armor line               *)
(* "-----BEGIN AGE ENCRYPTED FILE-----", "E" is                            *)
(* "-----END AGE ENCRYPTED FILE-----", "Q" is a double quote, "BS" a       *)
(* backslash, "0".."9" the digits, "true" "false" "null" "[" "]" "{" "}"   *)
(* ":" "," the JSON tokens, and the other names are plain letters.  The    *)
(* chunk "#" is the base64 body of an armored age file; it carries what    *)
(* the body encodes: the recipients' stanzas, the payload and the file's   *)
(* random file key.                                                        *)
(***************************************************************************)
Ch(x) == [c |-> x]

Body(to, data, n) == [c |-> "#", to |-> to, data |-> data, n |-> n]

\* The run of decimal digits that writes the integer 2^53 + k.
DigitsAbove(k) == [c |-> "2^53+", n |-> k]

DigitNames == <<"0", "1", "2", "3", "4", "5", "6", "7", "8", "9">>

Alphabet ==
    DigitNames \o <<"#", "B", "E", "P", "S", "Q", "BS", "[", "]", "{", "}",
                    ":", ",", "true", "false", "null", "a", "h", "n", "s", "x",
                    "2^53+">>

Rank(ch) == CHOOSE i \in 1..Len(Alphabet) : Alphabet[i] = ch.c

IsDigit(ch) == \E i \in 1..Len(DigitNames) : DigitNames[i] = ch.c

DigitVal(ch) == (CHOOSE i \in 1..Len(DigitNames) : DigitNames[i] = ch.c) - 1

\* strings.Contains
Contains(s, sub) ==
    \E i \in 1..(Len(s) - Len(sub) + 1) : SubSeq(s, i, i + Len(sub) - 1) = sub

\* strings.HasPrefix
HasPrefix(s, p) == Len(s) >= Len(p) /\ SubSeq(s, 1, Len(p)) = p

Tail2(s) == SubSeq(s, 3, Len(s))

\* The byte order of two strings, as sort.Strings and encoding/json use it.
RECURSIVE StrLess(_, _)
StrLess(a, b) ==
    IF b = <<>> THEN FALSE
    ELSE IF a = <<>> THEN TRUE
    ELSE IF Rank(Head(a)) # Rank(Head(b)) THEN Rank(Head(a)) < Rank(Head(b))
    ELSE StrLess(Tail(a), Tail(b))

MinKey(ks) == CHOOSE k \in ks : \A j \in ks \ {k} : StrLess(k, j)

MaxKey(ks) == CHOOSE k \in ks : \A j \in ks \ {k} : StrLess(j, k)

(***************************************************************************)
(* Go values of type any, as the tree holds them.  []any and               *)
(* []map[string]any are different dynamic types: a type switch with a      *)
(* case []any does not select a []map[string]any.                          *)
(***************************************************************************)
GoString(s) == [t |-> "string", s |-> s]

GoInt(n) == [t |-> "int", n |-> n]

GoInt64(n) == [t |-> "int64", n |-> n]

GoFloat64(n) == [t |-> "float64", n |-> n]

\* The int64 of value 2^53 + k and the float64 of value 2^53 + k.  A float64
\* has 53 bits of mantissa: from 2^53 on it holds the even integers only.
GoInt64Above(k) == [t |-> "int64+", n |-> k]

GoFloat64Above(k) == [t |-> "float64+", n |-> k]

\* strconv.ParseFloat for the integer 2^53 + k, as the offset of the float64
\* it yields: the nearest even offset, a tie going to the even mantissa.
RoundToFloat64(k) ==
    IF k % 2 = 0 THEN k ELSE IF (k - 1) % 4 = 0 THEN k - 1 ELSE k + 1

GoNaN == [t |-> "NaN"]

GoBool(b) == [t |-> "bool", b |-> b]

GoNil == [t |-> "nil"]

GoMap(m) == [t |-> "map", m |-> m]

GoSlice(e) == [t |-> "slice", e |-> e]

GoMapSlice(e) == [t |-> "mapslice", e |-> e]

EmptyMap == GoMap(<<>>)

\* The nil values of the types []any and map[string]any: of length 0 like
\* the empty ones, and not equal to them under reflect.DeepEqual.
GoNilSlice == [t |-> "slice", e |-> <<>>, isNil |-> TRUE]

GoNilMap == [t |-> "map", m |-> <<>>, isNil |-> TRUE]

IsContainer(v) == v.t \in {"map", "slice", "mapslice"}

(***************************************************************************)
(* encoding/json.                                                          *)
(***************************************************************************)
\* A string's content inside a quoted literal: quote and backslash escaped.
RECURSIVE Escape(_)
Escape(s) ==
    IF s = <<>> THEN <<>>
    ELSE IF Head(s).c \in {"Q", "BS"} THEN <<Ch("BS"), Head(s)>> \o Escape(Tail(s))
    ELSE <<Head(s)>> \o Escape(Tail(s))

Quote(s) == <<Ch("Q")>> \o Escape(s) \o <<Ch("Q")>>

RECURSIVE Digits(_)
Digits(n) ==
    IF n < 10 THEN <<Ch(DigitNames[n + 1])>>
    ELSE Digits(n \div 10) \o <<Ch(DigitNames[(n % 10) + 1])>>

RECURSIVE jsonEncode(_), jsonEncodeElems(_), jsonEncodeMembers(_)
\* json.Marshal's text for a value it can encode.
jsonEncode(v) ==
    CASE v.t = "string" -> Quote(v.s)
      [] v.t \in {"int", "int64", "float64"} -> Digits(v.n)
      [] v.t \in {"int64+", "float64+"} -> <<DigitsAbove(v.n)>>
      [] v.t = "bool" -> <<Ch(IF v.b THEN "true" ELSE "false")>>
      [] v.t = "nil" -> <<Ch("null")>>
      [] v.t = "map" -> <<Ch("{")>> \o jsonEncodeMembers(v.m) \o <<Ch("}")>>
      [] v.t \in {"slice", "mapslice"} ->
            <<Ch("[")>> \o jsonEncodeElems(v.e) \o <<Ch("]")>>
      [] OTHER -> <<>>

jsonEncodeElems(e) ==
    IF e = <<>> THEN <<>>
    ELSE jsonEncode(Head(e))
         \o (IF Len(e) > 1 THEN <<Ch(",")>> ELSE <<>>)
         \o jsonEncodeElems(Tail(e))

\* Map keys are written in sorted order.
jsonEncodeMembers(m) ==
    IF DOMAIN m = {} THEN <<>>
    ELSE LET k == MinKey(DOMAIN m)
             rest == [j \in (DOMAIN m) \ {k} |-> m[j]]
         IN  Quote(k) \o <<Ch(":")>> \o jsonEncode(m[k])
             \o (IF DOMAIN rest # {} THEN <<Ch(",")>> ELSE <<>>)
             \o jsonEncodeMembers(rest)

\* json.Marshal fails on a NaN anywhere in the value (UnsupportedValueError).
RECURSIVE jsonEncodable(_)
jsonEncodable(v) ==
    CASE v.t = "NaN" -> FALSE
      [] v.t = "map" -> \A k \in DOMAIN v.m : jsonEncodable(v.m[k])
      [] v.t \in {"slice", "mapslice"} -> \A i \in 1..Len(v.e) : jsonEncodable(v.e[i])
      [] OTHER -> TRUE

jsonMarshal(v) ==
    IF jsonEncodable(v) THEN [ok |-> TRUE, b |-> jsonEncode(v)]
    ELSE [ok |-> FALSE, b |-> <<>>]

ParseFail == [ok |-> FALSE, v |-> GoNil, rest |-> <<>>]

Parsed(v, rest) == [ok |-> TRUE, v |-> v, rest |-> rest]

\* The longest run of digits a text starts with.
RECURSIVE DigitRun(_)
DigitRun(b) ==
    IF b # <<>> /\ IsDigit(Head(b)) THEN <<Head(b)>> \o DigitRun(Tail(b)) ELSE <<>>

RECURSIVE DigitsVal(_, _)
DigitsVal(ds, acc) ==
    IF ds = <<>> THEN acc ELSE DigitsVal(Tail(ds), 10 * acc + DigitVal(Head(ds)))

\* The text after an opening quote: the unescaped content up to the closing
\* quote, and what follows it.
RECURSIVE jsonScanString(_, _)
jsonScanString(b, acc) ==
    IF b = <<>> THEN ParseFail
    ELSE IF Head(b).c = "Q" THEN Parsed(GoString(acc), Tail(b))
    ELSE IF Head(b).c = "BS"
         THEN IF Len(b) >= 2 /\ b[2].c \in {"Q", "BS"}
              THEN jsonScanString(Tail2(b), Append(acc, b[2]))
              ELSE ParseFail
    ELSE jsonScanString(Tail(b), Append(acc, Head(b)))

RECURSIVE jsonParseValue(_), jsonParseElems(_, _), jsonParseMembers(_, _)
\* One JSON value at the start of a text, decoded as json.Unmarshal decodes
\* into an any: object -> map[string]any, array -> []any, number -> float64,
\* string, bool, null -> nil.
jsonParseValue(b) ==
    IF b = <<>> THEN ParseFail
    ELSE LET h == Head(b).c IN
         CASE h = "true" -> Parsed(GoBool(TRUE), Tail(b))
           [] h = "false" -> Parsed(GoBool(FALSE), Tail(b))
           [] h = "null" -> Parsed(GoNil, Tail(b))
           [] h = "Q" -> jsonScanString(Tail(b), <<>>)
           [] h = "2^53+" ->
                Parsed(GoFloat64Above(RoundToFloat64(Head(b).n)), Tail(b))
           [] IsDigit(Head(b)) ->
                LET ds == DigitRun(b) IN
                IF Len(ds) > 1 /\ ds[1].c = "0" THEN ParseFail
                ELSE Parsed(GoFloat64(DigitsVal(ds, 0)), SubSeq(b, Len(ds) + 1, Len(b)))
           [] h = "[" ->
                IF Len(b) >= 2 /\ b[2].c = "]" THEN Parsed(GoSlice(<<>>), Tail2(b))
                ELSE jsonParseElems(Tail(b), <<>>)
           [] h = "{" ->
                IF Len(b) >= 2 /\ b[2].c = "}" THEN Parsed(EmptyMap, Tail2(b))
                ELSE jsonParseMembers(Tail(b), <<>>)
           [] OTHER -> ParseFail

jsonParseElems(b, acc) ==
    LET one == jsonParseValue(b) IN
    IF ~one.ok \/ one.rest = <<>> THEN ParseFail
    ELSE IF Head(one.rest).c = "]"
         THEN Parsed(GoSlice(Append(acc, one.v)), Tail(one.rest))
    ELSE IF Head(one.rest).c = ","
         THEN jsonParseElems(Tail(one.rest), Append(acc, one.v))
    ELSE ParseFail

jsonParseMembers(b, acc) ==
    IF b = <<>> \/ Head(b).c # "Q" THEN ParseFail
    ELSE LET key == jsonScanString(Tail(b), <<>>) IN
         IF ~key.ok \/ key.rest = <<>> \/ Head(key.rest).c # ":" THEN ParseFail
         ELSE LET val == jsonParseValue(Tail(key.rest))
                  m == (key.v.s :> val.v) @@ acc
              IN  IF ~val.ok \/ val.rest = <<>> THEN ParseFail
                  ELSE IF Head(val.rest).c = "}"
                       THEN Parsed(GoMap(m), Tail(val.rest))
                  ELSE IF Head(val.rest).c = ","
                       THEN jsonParseMembers(Tail(val.rest), m)
                  ELSE ParseFail

\* json.Unmarshal(data, &jsonValue) with jsonValue of type any.
jsonUnmarshal(b) ==
    LET p == jsonParseValue(b) IN
    IF p.ok /\ p.rest = <<>> THEN [ok |-> TRUE, v |-> p.v]
    ELSE [ok |-> FALSE, v |-> GoNil]

(***************************************************************************)
(* BurntSushi/toml.  A document is modelled by its TOML data: tables,      *)
(* arrays of tables ([[key]] headers), inline arrays and scalars, a string *)
(* kept as the quoted literal the file holds.                              *)
(***************************************************************************)
TomlString(lit) == [t |-> "tstring", lit |-> lit]

TomlInteger(n) == [t |-> "tinteger", n |-> n]

TomlFloat(n) == [t |-> "tfloat", n |-> n]

TomlIntegerAbove(k) == [t |-> "tinteger+", n |-> k]

TomlFloatAbove(k) == [t |-> "tfloat+", n |-> k]

TomlNaN == [t |-> "tnan"]

TomlBool(b) == [t |-> "tbool", b |-> b]

TomlTable(m) == [t |-> "table", m |-> m]

TomlArray(e) == [t |-> "array", e |-> e]

TomlTableArray(e) == [t |-> "tablearray", e |-> e]

\* Bytes that are not a TOML document.
TomlInvalid == [t |-> "invalid"]

\* The encoder rejects a nil element of an array or slice; a nil map entry is
\* skipped.
RECURSIVE tomlEncodable(_)
tomlEncodable(v) ==
    CASE v.t = "map" ->
            \A k \in DOMAIN v.m : v.m[k].t = "nil" \/ tomlEncodable(v.m[k])
      [] v.t \in {"slice", "mapslice"} ->
            \A i \in 1..Len(v.e) : v.e[i].t # "nil" /\ tomlEncodable(v.e[i])
      [] OTHER -> TRUE

\* A non-empty slice whose elements are all tables is written as an array of
\* tables, unless it sits inside an inline array.
isTableArray(v) ==
    /\ v.t \in {"slice", "mapslice"}
    /\ Len(v.e) > 0
    /\ \A i \in 1..Len(v.e) : v.e[i].t = "map"

RECURSIVE tomlEncode(_, _)
tomlEncode(v, inline) ==
    CASE v.t = "string" -> TomlString(Quote(v.s))
      [] v.t \in {"int", "int64"} -> TomlInteger(v.n)
      [] v.t = "float64" -> TomlFloat(v.n)
      [] v.t = "int64+" -> TomlIntegerAbove(v.n)
      [] v.t = "float64+" -> TomlFloatAbove(v.n)
      [] v.t = "NaN" -> TomlNaN
      [] v.t = "bool" -> TomlBool(v.b)
      [] v.t = "map" ->
            TomlTable([k \in {j \in DOMAIN v.m : v.m[j].t # "nil"} |->
                          tomlEncode(v.m[k], inline)])
      [] v.t \in {"slice", "mapslice"} ->
            IF ~inline /\ isTableArray(v)
            THEN TomlTableArray([i \in 1..Len(v.e) |-> tomlEncode(v.e[i], FALSE)])
            ELSE TomlArray([i \in 1..Len(v.e) |-> tomlEncode(v.e[i], TRUE)])
      [] OTHER -> TomlInvalid

\* tomlMarshal: toml.NewEncoder(&buf).Encode(v).  The top level must be a table.
tomlMarshal(v) ==
    IF v.t = "map" /\ tomlEncodable(v)
    THEN [ok |-> TRUE, data |-> tomlEncode(v, FALSE)]
    ELSE [ok |-> FALSE, data |-> TomlInvalid]

\* The value the decoder stores into an any: a table is a map[string]any, an
\* array of tables is a []map[string]any, an inline array is a []any, an
\* integer is an int64, a float is a float64.
RECURSIVE tomlDecode(_)
tomlDecode(d) ==
    CASE d.t = "tstring" -> jsonScanString(Tail(d.lit), <<>>).v
      [] d.t = "tinteger" -> GoInt64(d.n)
      [] d.t = "tfloat" -> GoFloat64(d.n)
      [] d.t = "tinteger+" -> GoInt64Above(d.n)
      [] d.t = "tfloat+" -> GoFloat64Above(d.n)
      [] d.t = "tnan" -> GoNaN
      [] d.t = "tbool" -> GoBool(d.b)
      [] d.t = "table" -> GoMap([k \in DOMAIN d.m |-> tomlDecode(d.m[k])])
      [] d.t = "tablearray" -> GoMapSlice([i \in 1..Len(d.e) |-> tomlDecode(d.e[i])])
      [] d.t = "array" -> GoSlice([i \in 1..Len(d.e) |-> tomlDecode(d.e[i])])
      [] OTHER -> GoNil

\* toml.Unmarshal(data, &tree) with tree a map[string]any.
tomlUnmarshal(data) ==
    IF data.t = "table" THEN [ok |-> TRUE, tree |-> tomlDecode(data)]
    ELSE [ok |-> FALSE, tree |-> GoNil]

(***************************************************************************)
(* package enc over filippo.io/age.  Key strings: "r1" "r2" are X25519     *)
(* recipients and "i1" "i2" "i3" X25519 identities; identity "i<n>" opens  *)
(* what was sealed to recipient "r<n>", and nothing is sealed to "i3".     *)
(* Any other key string is malformed.  A passphrase gives a scrypt         *)
(* recipient and a scrypt identity.                                        *)
(***************************************************************************)
NoPassphrase == "none"

PassphraseError == "err"

RecipientKey(str) ==
    CASE str = "r1" -> "k1" [] str = "r2" -> "k2" [] OTHER -> "malformed"

IdentityKey(str) ==
    CASE str = "i1" -> "k1" [] str = "i2" -> "k2" [] str = "i3" -> "k3"
      [] OTHER -> "malformed"

X25519(key) == [kind |-> "x25519", key |-> key]

Scrypt(passphrase) == [kind |-> "scrypt", key |-> passphrase]

\* KeySources.LoadIdentities (no identities file).
LoadIdentities(ks) ==
    IF \E i \in 1..Len(ks.IdentitiesData) : IdentityKey(ks.IdentitiesData[i]) = "malformed"
    THEN [err |-> "failed to parse identity", ids |-> <<>>]
    ELSE IF ks.Passphrase = PassphraseError
    THEN [err |-> "failed to get passphrase", ids |-> <<>>]
    ELSE [err |-> "",
          ids |-> [i \in 1..Len(ks.IdentitiesData) |-> X25519(IdentityKey(ks.IdentitiesData[i]))]
                  \o (IF ks.Passphrase # NoPassphrase
                      THEN <<Scrypt(ks.Passphrase)>> ELSE <<>>)]

\* KeySources.LoadRecipients (no recipients file).
LoadRecipients(ks) ==
    IF \E i \in 1..Len(ks.Recipients) : RecipientKey(ks.Recipients[i]) = "malformed"
    THEN [err |-> "failed to parse recipient", rcpts |-> <<>>]
    ELSE IF ks.Passphrase = PassphraseError
    THEN [err |-> "failed to get passphrase", rcpts |-> <<>>]
    ELSE [err |-> "",
          rcpts |-> [i \in 1..Len(ks.Recipients) |-> X25519(RecipientKey(ks.Recipients[i]))]
                    \o (IF ks.Passphrase # NoPassphrase
                        THEN <<Scrypt(ks.Passphrase)>> ELSE <<>>)]

BeginMarker == <<Ch("B")>>

EndMarker == <<Ch("E")>>

\* enc.Encrypt.  n is the randomness of this call.  age.Encrypt refuses a
\* scrypt recipient that is not the only recipient.
Encrypt(data, recipients, n) ==
    IF Len(recipients) = 0 THEN [err |-> "no recipients provided", armored |-> <<>>]
    ELSE IF Len(recipients) # 1
            /\ \E i \in 1..Len(recipients) : recipients[i].kind = "scrypt"
    THEN [err |-> "failed to create age encryptor", armored |-> <<>>]
    ELSE [err |-> "",
          armored |-> BeginMarker
                      \o <<Body({recipients[i] : i \in 1..Len(recipients)}, data, n)>>
                      \o EndMarker]

\* enc.Decrypt.  The armor reader accepts one well-formed armored block.
Decrypt(armoredData, identities) ==
    IF Len(identities) = 0 THEN [err |-> "no identities provided", b |-> <<>>]
    ELSE IF ~(/\ Len(armoredData) = 3
              /\ <<armoredData[1]>> = BeginMarker
              /\ armoredData[2].c = "#"
              /\ <<armoredData[3]>> = EndMarker)
    THEN [err |-> "failed to decrypt", b |-> <<>>]
    ELSE IF ~\E i \in 1..Len(identities) : identities[i] \in armoredData[2].to
    THEN [err |-> "failed to decrypt", b |-> <<>>]
    ELSE [err |-> "", b |-> armoredData[2].data]

RECURSIVE GetRecipientStrings(_)
GetRecipientStrings(recipients) ==
    IF recipients = <<>> THEN <<>>
    ELSE <<IF Head(recipients).kind = "scrypt" THEN "passphrase"
           ELSE CHOOSE str \in {"r1", "r2"} : RecipientKey(str) = Head(recipients).key>>
         \o GetRecipientStrings(Tail(recipients))

HasPassphraseRecipient(recipients) ==
    \E i \in 1..Len(recipients) : recipients[i].kind = "scrypt"

(***************************************************************************)
(* package viola: Options.                                                 *)
(***************************************************************************)
DefaultPrivatePrefix == <<Ch("P")>>

\* Options.setDefaults
setDefaults(o) ==
    IF o.PrivatePrefix = <<>> THEN [o EXCEPT !.PrivatePrefix = DefaultPrivatePrefix]
    ELSE o

\* The caller-supplied ShouldEncrypt functions of the model, by name:
\* "secret" is a key-based rule (the key contains "secret"), "strings" a
\* value-based rule (the value is a string).
CustomShouldEncrypt(name, path, key, value) ==
    CASE name = "secret" -> Contains(key, <<Ch("S")>>)
      [] name = "strings" -> value.t = "string"
      [] OTHER -> FALSE

\* shouldEncryptField consulting the prefix beside the caller's function.
shouldEncryptField_PrefixToo(o, path, key, value) ==
    \/ HasPrefix(key, o.PrivatePrefix)
    \/ o.ShouldEncrypt # "nil"
       /\ CustomShouldEncrypt(o.ShouldEncrypt, path, key, value)

\* Options.shouldEncryptField
shouldEncryptField(o, path, key, value) ==
    IF o.ShouldEncrypt # "nil" THEN CustomShouldEncrypt(o.ShouldEncrypt, path, key, value)
    ELSE HasPrefix(key, o.PrivatePrefix)

\* isArmoredData
isArmoredData(s) == Contains(s, BeginMarker) /\ Contains(s, EndMarker)

FieldMeta(path, armored, usedRecipients, usedPassphrase) ==
    [Path |-> path, WasEncrypted |-> TRUE, Armored |-> armored,
     UsedRecipients |-> usedRecipients, UsedPassphrase |-> usedPassphrase]

(***************************************************************************)
(* package walk: GetValue.                                                 *)
(***************************************************************************)
NotFound == [v |-> GoNil, found |-> FALSE]

Found(value) == [v |-> value, found |-> TRUE]

\* GetValue's test of a key for the form "[...]": at least three bytes, the
\* first '[' and the last ']'.
IsIndexKey(key) ==
    Len(key) >= 3 /\ key[1] = Ch("[") /\ key[Len(key)] = Ch("]")

\* fmt.Sscanf(indexStr, "%d", &index): the digits the text starts with;
\* an error when it starts with none.
ScanIndex(indexStr) ==
    IF DigitRun(indexStr) = <<>> THEN [ok |-> FALSE, n |-> 0]
    ELSE [ok |-> TRUE, n |-> DigitsVal(DigitRun(indexStr), 0)]

\* GetValue's step from a []any v by key.
getValueIndex(v, key) ==
    IF ~IsIndexKey(key) THEN NotFound
    ELSE IF ~ScanIndex(SubSeq(key, 2, Len(key) - 1)).ok THEN NotFound
    ELSE IF ScanIndex(SubSeq(key, 2, Len(key) - 1)).n >= Len(v) THEN NotFound
    ELSE Found(v[ScanIndex(SubSeq(key, 2, Len(key) - 1)).n + 1])

\* The body of GetValue's loop: one step from current by key.
getValueStep(current, key) ==
    CASE current.t = "map" ->
            IF key \in DOMAIN current.m THEN Found(current.m[key]) ELSE NotFound
      [] current.t = "slice" -> getValueIndex(current.e, key)
      [] OTHER -> NotFound

\* GetValue's loop over the keys of path, from current.
RECURSIVE getValueLoop(_, _)
getValueLoop(current, path) ==
    IF path = <<>> THEN Found(current)
    ELSE IF ~getValueStep(current, Head(path)).found THEN NotFound
    ELSE getValueLoop(getValueStep(current, Head(path)).v, Tail(path))

\* walk.GetValue
GetValue(data, path) ==
    IF Len(path) = 0 THEN Found(data) ELSE getValueLoop(data, path)

(***************************************************************************)
(* package walk: SetValue.  It writes into the container it reaches; data  *)
(* in its result is the caller's tree after the call.                      *)
(***************************************************************************)
SetFailed(data) == [ok |-> FALSE, panic |-> FALSE, data |-> data]

\* An assignment to an entry of a nil map.
SetPanicked(data) == [ok |-> FALSE, panic |-> TRUE, data |-> data]

SetDone(data) == [ok |-> TRUE, panic |-> FALSE, data |-> data]

IsNilMap(v) == v.t = "map" /\ "isNil" \in DOMAIN v

\* p[finalKey] = newValue for a []any p: the same tests as GetValue's, then
\* the assignment.
setValueIndex(p, finalKey, newValue) ==
    IF ~IsIndexKey(finalKey) THEN SetFailed(p)
    ELSE IF ~ScanIndex(SubSeq(finalKey, 2, Len(finalKey) - 1)).ok THEN SetFailed(p)
    ELSE IF ScanIndex(SubSeq(finalKey, 2, Len(finalKey) - 1)).n >= Len(p.e)
    THEN SetFailed(p)
    ELSE SetDone([p EXCEPT
                    !.e[ScanIndex(SubSeq(finalKey, 2, Len(finalKey) - 1)).n + 1] =
                        newValue])

\* m[key] = newValue for a map[string]any m.
setValueKey(m, key, newValue) ==
    IF IsNilMap(m) THEN SetPanicked(m)
    ELSE SetDone([m EXCEPT !.m = (key :> newValue) @@ m.m])

\* SetValue's switch on the parent p.
setValueIn(p, finalKey, newValue) ==
    CASE p.t = "map" -> setValueKey(p, finalKey, newValue)
      [] p.t = "slice" -> setValueIndex(p, finalKey, newValue)
      [] OTHER -> SetFailed(p)

\* The tree after the container GetValue reaches by path became p: the
\* container is written in place, so every container on the way holds it.
RECURSIVE Written(_, _, _)
Written(current, path, p) ==
    IF path = <<>> THEN p
    ELSE IF current.t = "map"
    THEN [current EXCEPT !.m[Head(path)] = Written(@, Tail(path), p)]
    ELSE [current EXCEPT
             !.e[ScanIndex(SubSeq(Head(path), 2, Len(Head(path)) - 1)).n + 1] =
                 Written(@, Tail(path), p)]

\* SetValue from "Navigate to parent" on; got is GetValue's result for the
\* parent's path, r the result of the switch on the parent.
setValueAt(data, parentPath, got, r) ==
    IF ~got.found THEN SetFailed(data)
    ELSE [r EXCEPT !.data = IF r.ok THEN Written(data, parentPath, r.data) ELSE data]

\* walk.SetValue
SetValue(data, path, newValue) ==
    IF Len(path) = 0 THEN SetFailed(data)
    ELSE IF Len(path) = 1
    THEN IF data.t = "map" THEN setValueKey(data, path[1], newValue)
         ELSE SetFailed(data)
    ELSE setValueAt(data, SubSeq(path, 1, Len(path) - 1),
                    GetValue(data, SubSeq(path, 1, Len(path) - 1)),
                    IF GetValue(data, SubSeq(path, 1, Len(path) - 1)).found
                    THEN setValueIn(GetValue(data, SubSeq(path, 1, Len(path) - 1)).v,
                                    path[Len(path)], newValue)
                    ELSE SetFailed(data))

(***************************************************************************)
(* Slices of strings.  A []string is a window on a backing array: s is the *)
(* content the window shows when the slice is made, arr names the array    *)
(* (0: none) and cap is the room from the window's start to the array's    *)
(* end.  append writes into the array when there is room and allocates a   *)
(* fresh one when there is none; every slice on the same array sees the    *)
(* write.                                                                  *)
(***************************************************************************)
NilPath == [s |-> <<>>, arr |-> 0, cap |-> 0]

\* The capacity append grows a full []string to (runtime.growslice below
\* 256 elements).
NewCap(cap) == IF cap = 0 THEN 1 ELSE 2 * cap

(***************************************************************************)
(* The visitors.  A visitor is a closure; acc is the state it closes over  *)
(* and the heap: fields (the records appended so far; Path is what the     *)
(* record's slice shows now), backing (for each record the array of its    *)
(* Path, 0 when it holds no slice), arrays (the arrays allocated so far),  *)
(* rnd (the randomness the next Encrypt draws) and visits (the number of   *)
(* visitor calls so far).                                                  *)
(***************************************************************************)
NewAcc(rnd) ==
    [fields |-> <<>>, backing |-> <<>>, arrays |-> 0, rnd |-> rnd, visits |-> 0]

\* The stored records after key was written at index i of array arr: the
\* records whose Path lies on arr and reaches index i show the new segment.
Overwritten(fields, backing, arr, i, key) ==
    [j \in 1..Len(fields) |->
        IF backing[j] = arr /\ Len(fields[j].Path) >= i
        THEN [fields[j] EXCEPT !.Path[i] = key]
        ELSE fields[j]]

\* append(path, key): the new slice p and the heap after it.
GoAppend(path, key, acc) ==
    IF Len(path.s) < path.cap
    THEN [p |-> [path EXCEPT !.s = Append(@, key)],
          acc |-> [acc EXCEPT !.fields =
                      Overwritten(@, acc.backing, path.arr, Len(path.s) + 1, key)]]
    ELSE [p |-> [s |-> Append(path.s, key), arr |-> acc.arrays + 1,
                 cap |-> NewCap(path.cap)],
          acc |-> [acc EXCEPT !.arrays = @ + 1]]

Visited(value, acc) ==
    [v |-> value, cont |-> TRUE, acc |-> [acc EXCEPT !.visits = @ + 1]]

\* fields = append(fields, meta), and return (value, true); arr is the array
\* meta's Path lies on.
Recorded(value, meta, arr, acc) ==
    [v |-> value, cont |-> TRUE,
     acc |-> [acc EXCEPT !.visits = @ + 1, !.fields = Append(@, meta),
                         !.backing = Append(@, arr)]]

\* Load's record FieldMeta{Path: append(path, key), ...}; ap is the append.
loadRecorded(value, armored, ap) ==
    Recorded(value, FieldMeta(ap.p.s, armored, <<>>, FALSE), ap.p.arr, ap.acc)

\* Load's visitor after enc.Decrypt succeeded: js is json.Unmarshal's result
\* for the decrypted bytes.
loadDecoded(path, key, value, decrypted, js, acc) ==
    loadRecorded(IF js.ok THEN js.v ELSE GoString(decrypted), value.s,
                 GoAppend(path, key, acc))

\* Load's visitor for an armored string: dec is enc.Decrypt's result.
loadDecrypted(path, key, value, dec, acc) ==
    IF dec.err # "" THEN loadRecorded(value, value.s, GoAppend(path, key, acc))
    ELSE loadDecoded(path, key, value, dec.b, jsonUnmarshal(dec.b), acc)

\* The function literal Load passes to walk.Walk.
loadVisit(ctx, path, key, value, acc) ==
    IF value.t = "string" /\ isArmoredData(value.s)
    THEN loadDecrypted(path, key, value, Decrypt(value.s, ctx.identities), acc)
    ELSE Visited(value, acc)

\* Save's record FieldMeta{Path: append(path, key), ...}; ap is the append.
saveRecorded(ctx, value, armored, ap) ==
    Recorded(value,
             FieldMeta(ap.p.s, armored, GetRecipientStrings(ctx.recipients),
                       HasPassphraseRecipient(ctx.recipients)),
             ap.p.arr, ap.acc)

\* Save's visitor storing and recording enc.Encrypt's result without looking
\* at its error.
saveSealed_IgnoresError(ctx, path, key, value, encrypted, acc) ==
    saveRecorded(ctx, GoString(encrypted.armored), encrypted.armored,
                 GoAppend(path, key, [acc EXCEPT !.rnd = @ + 1]))

\* Save's visitor after enc.Encrypt: encrypted is its result.
saveSealed(ctx, path, key, value, encrypted, acc) ==
    IF encrypted.err # "" THEN Visited(value, acc)
    ELSE saveRecorded(ctx, GoString(encrypted.armored), encrypted.armored,
                      GoAppend(path, key, [acc EXCEPT !.rnd = @ + 1]))

\* Save's visitor for a value to encrypt: js is json.Marshal's result for it,
\* used when the value is no string.
saveEncoded(ctx, path, key, value, js, acc) ==
    IF value.t # "string" /\ ~js.ok THEN Visited(value, acc)
    ELSE saveSealed(ctx, path, key, value,
                    Encrypt(IF value.t = "string" THEN value.s ELSE js.b,
                            ctx.recipients, acc.rnd),
                    acc)

\* The function literal Save passes to walk.Walk.
saveVisit(ctx, path, key, value, acc) ==
    IF shouldEncryptField(ctx.opts, path.s, key, value)
    THEN IF value.t = "string" /\ isArmoredData(value.s)
         THEN saveRecorded(ctx, value, value.s, GoAppend(path, key, acc))
         ELSE saveEncoded(ctx, path, key, value, jsonMarshal(value), acc)
    ELSE Visited(value, acc)

\* A caller's visitor that looks each node up in the tree being walked, with
\* a copy of the path it was passed and the key, and keeps what it was
\* passed and what GetValue returned.
lookupVisit(ctx, path, key, value, acc) ==
    Recorded(value,
             [path |-> path.s, key |-> key, value |-> value,
              got |-> GetValue(ctx.root, Append(path.s, key))],
             0, acc)

\* The predicates handed to FindFields: strings.HasPrefix(key, "private_"),
\* value.(string), and one that is always true.
Predicate(name, path, key, value) ==
    CASE name = "private" -> HasPrefix(key, <<Ch("P")>>)
      [] name = "string" -> value.t = "string"
      [] OTHER -> TRUE

\* FindFields' record FieldInfo{Path: fullPath, Key: key, Value: value}; ap
\* is fullPath := append(path, key).
findRecorded(key, value, ap) ==
    Recorded(value, [Path |-> ap.p.s, Key |-> key, Value |-> value],
             ap.p.arr, ap.acc)

\* The function literal FindFields passes to Walk.
findVisit(ctx, path, key, value, acc) ==
    IF Predicate(ctx.predicate, path.s, key, value)
    THEN findRecorded(key, value, GoAppend(path, key, acc))
    ELSE Visited(value, acc)

\* What a visitor returns to hand back the value it was passed.
Same == [t |-> "same"]

\* A caller's visitor that keeps what it was passed and, at the key ctx.at,
\* returns (ctx.with, ctx.cont), ctx.with being a value of its own or the
\* value it was passed; at every other key it returns (value, true).
replaceVisit(ctx, path, key, value, acc) ==
    IF key = ctx.at
    THEN [Recorded(IF ctx.with = Same THEN value ELSE ctx.with,
                   [path |-> path.s, key |-> key, value |-> value], 0, acc)
             EXCEPT !.cont = ctx.cont]
    ELSE Recorded(value, [path |-> path.s, key |-> key, value |-> value], 0, acc)

visit(ctx, path, key, value, acc) ==
    CASE ctx.op = "load" -> loadVisit(ctx, path, key, value, acc)
      [] ctx.op = "save" -> saveVisit(ctx, path, key, value, acc)
      [] ctx.op = "lookup" -> lookupVisit(ctx, path, key, value, acc)
      [] ctx.op = "find" -> findVisit(ctx, path, key, value, acc)
      [] ctx.op = "replace" -> replaceVisit(ctx, path, key, value, acc)
      [] OTHER -> Visited(value, acc)

(***************************************************************************)
(* package walk.                                                           *)
(***************************************************************************)
\* fmt.Sprintf("[%d]", i), i counted from 0.
IndexKey(i) == <<Ch("[")>> \o Digits(i) \o <<Ch("]")>>

\* What the path walkMap and walkSlice build for their level shows.
CurrentPath(parentPath, parentKey) ==
    IF parentKey # <<>> THEN Append(parentPath, parentKey) ELSE parentPath

\* The slice currentPath of walkMap and walkSlice, and the heap after it was
\* built.
LevelPath(parentPath, parentKey, acc) ==
    IF parentKey # <<>> THEN GoAppend(parentPath, parentKey, acc)
    ELSE [p |-> parentPath, acc |-> acc]

\* The key a range over a map yields next: Go fixes no order; ctx.ord picks
\* one of the orders the model explores.
NextKey(ctx, ks) == IF ctx.ord = "asc" THEN MinKey(ks) ELSE MaxKey(ks)

RECURSIVE walkValue(_, _, _, _, _), walkVisited(_, _, _, _),
          walkMap(_, _, _, _, _, _), walkMapEntry(_, _, _, _, _, _, _),
          walkSlice(_, _, _, _, _, _), walkSliceElem(_, _, _, _, _, _),
          walkMapAt(_, _, _), walkSliceAt(_, _, _)
\* walkValue: the visitor first, then the children of the value it returned.
walkValue(ctx, path, key, value, acc) ==
    walkVisited(ctx, path, key, visit(ctx, path, key, value, acc))

\* walkValue descending whatever cont the visitor returned.
walkVisited_IgnoresCont(ctx, path, key, r) ==
    CASE r.v.t = "map" ->
           walkMapAt(ctx, LevelPath(path, key, r.acc), r.v.m)
      [] r.v.t = "slice" ->
           walkSliceAt(ctx, LevelPath(path, key, r.acc), r.v.e)
      [] OTHER -> [v |-> r.v, acc |-> r.acc]

\* walkValue walking the children and returning the container the visitor
\* returned instead of the one walkMap or walkSlice built.
walkVisited_KeepsContainer(ctx, path, key, r) ==
    IF ~r.cont THEN [v |-> r.v, acc |-> r.acc]
    ELSE CASE r.v.t = "map" ->
                [v |-> r.v,
                 acc |-> walkMapAt(ctx, LevelPath(path, key, r.acc), r.v.m).acc]
           [] r.v.t = "slice" ->
                [v |-> r.v,
                 acc |-> walkSliceAt(ctx, LevelPath(path, key, r.acc), r.v.e).acc]
           [] OTHER -> [v |-> r.v, acc |-> r.acc]

\* walkValue returning what the visitor returned without descending.
walkVisited_NoDescent(ctx, path, key, r) == [v |-> r.v, acc |-> r.acc]

\* walkValue after the visitor returned r = (newValue, cont).
walkVisited(ctx, path, key, r) ==
    IF ~r.cont THEN [v |-> r.v, acc |-> r.acc]
    ELSE CASE r.v.t = "map" ->
                walkMapAt(ctx, LevelPath(path, key, r.acc), r.v.m)
           [] r.v.t = "slice" ->
                walkSliceAt(ctx, LevelPath(path, key, r.acc), r.v.e)
           [] OTHER -> [v |-> r.v, acc |-> r.acc]

\* walkMap from its loop on; level is currentPath and the heap.
walkMapAt(ctx, level, m) ==
    walkMap(ctx, level.p, m, DOMAIN m, <<>>, level.acc)

\* walkSlice from its loop on; level is currentPath and the heap.
walkSliceAt(ctx, level, s) ==
    walkSlice(ctx, level.p, s, 1, <<>>, level.acc)

\* walkMap's loop: todo are the keys not yet ranged over, result the new map.
walkMap(ctx, currentPath, m, todo, result, acc) ==
    IF todo = {} THEN [v |-> GoMap(result), acc |-> acc]
    ELSE walkMapEntry(ctx, currentPath, m, todo, result, NextKey(ctx, todo), acc)

\* One iteration of walkMap's loop, for key k.
walkMapEntry(ctx, currentPath, m, todo, result, k, acc) ==
    LET w == walkValue(ctx, currentPath, k, m[k], acc)
    IN  walkMap(ctx, currentPath, m, todo \ {k}, (k :> w.v) @@ result, w.acc)

\* walkSlice's loop: i is the next index (from 1), result the new slice.
walkSlice(ctx, currentPath, s, i, result, acc) ==
    IF i > Len(s) THEN [v |-> GoSlice(result), acc |-> acc]
    ELSE walkSliceElem(ctx, currentPath, s, i, result,
                       walkValue(ctx, currentPath, IndexKey(i - 1), s[i], acc))

\* walkSlice's loop losing the element it walked.
walkSliceElem_DropsElement(ctx, currentPath, s, i, result, w) ==
    walkSlice(ctx, currentPath, s, i + 1, result, w.acc)

\* walkSlice's loop after element i was walked with result w.
walkSliceElem(ctx, currentPath, s, i, result, w) ==
    walkSlice(ctx, currentPath, s, i + 1, Append(result, w.v), w.acc)

\* walk.Walk
Walk(ctx, data, acc) == walkValue(ctx, NilPath, <<>>, data, acc)

\* walk.FindFields; ord is the map iteration order of the call.
FindFields(data, predicate, ord) ==
    Walk([op |-> "find", ord |-> ord, predicate |-> predicate], data,
         NewAcc(0)).acc.fields

(***************************************************************************)
(* package viola: Load, Save, Transform.  ord is the map iteration order   *)
(* of the call and rnd the randomness its first Encrypt draws.             *)
(***************************************************************************)
NoFields == <<>>

LoadError(msg) ==
    [err |-> msg, Tree |-> GoNil, Fields |-> NoFields, parsed |-> GoNil, visits |-> 0]

\* Load's return after the walk; w is walk.Walk's result.
LoadResult(parsed, w) ==
    [err |-> "", Tree |-> w.v, Fields |-> w.acc.fields, parsed |-> parsed,
     visits |-> w.acc.visits]

\* Load after toml.Unmarshal (doc) and LoadIdentities (identities).
LoadParsed(doc, identities, ord) ==
    IF ~doc.ok THEN LoadError("failed to parse TOML")
    ELSE IF identities.err # "" THEN LoadError("failed to load identities")
    ELSE LoadResult(doc.tree,
                    Walk([op |-> "load", ord |-> ord, identities |-> identities.ids],
                         doc.tree, NewAcc(0)))

Load(data, options, ord) ==
    LoadParsed(tomlUnmarshal(data), LoadIdentities(setDefaults(options).Keys), ord)

SaveError(msg, rnd, visits) ==
    [err |-> msg, data |-> TomlInvalid, fields |-> NoFields, walked |-> GoNil,
     rnd |-> rnd, visits |-> visits, written |-> FALSE]

\* Save's return after the walk (w) and tomlMarshal (toml).
SaveResult(w, toml) ==
    IF ~toml.ok THEN SaveError("failed to marshal TOML", w.acc.rnd, w.acc.visits)
    ELSE [err |-> "", data |-> toml.data, fields |-> w.acc.fields, walked |-> w.v,
          rnd |-> w.acc.rnd, visits |-> w.acc.visits, written |-> TRUE]

\* Save from the walk on; w is walk.Walk's result.
SaveWalked(w) == SaveResult(w, tomlMarshal(w.v))

\* Save without its check for an empty recipient list.
SaveWith_NoRecipientCheck(tree, opts, recipients, ord, rnd) ==
    IF recipients.err # "" THEN SaveError("failed to load recipients", rnd, 0)
    ELSE SaveWalked(Walk([op |-> "save", ord |-> ord, opts |-> opts,
                          recipients |-> recipients.rcpts],
                         tree, NewAcc(rnd)))

\* Save after setDefaults (opts) and LoadRecipients (recipients).
SaveWith(tree, opts, recipients, ord, rnd) ==
    IF recipients.err # "" THEN SaveError("failed to load recipients", rnd, 0)
    ELSE IF Len(recipients.rcpts) = 0
    THEN SaveError("no recipients available for encryption", rnd, 0)
    ELSE SaveWalked(Walk([op |-> "save", ord |-> ord, opts |-> opts,
                          recipients |-> recipients.rcpts],
                         tree, NewAcc(rnd)))

Save(tree, options, ord, rnd) ==
    SaveWith(tree, setDefaults(options), LoadRecipients(setDefaults(options).Keys),
             ord, rnd)

\* The mutate functions of the model, each a func(tree any) error that edits
\* the loaded tree in place:
\*   keep   returns nil and changes nothing
\*   fail   returns an error
\*   put    treeMap[key] = value
\*   putIn  treeMap[at].([]map[string]any)[0][key] = value, and an error when
\*          treeMap[at] is no non-empty []map[string]any
Keep == [kind |-> "keep"]

Fail == [kind |-> "fail"]

Put(key, value) == [kind |-> "put", key |-> key, value |-> value]

PutIn(at, key, value) == [kind |-> "putIn", at |-> at, key |-> key, value |-> value]

Mutate(mut, tree) ==
    CASE mut.kind = "keep" -> [err |-> "", tree |-> tree]
      [] mut.kind = "put" ->
            [err |-> "", tree |-> GoMap((mut.key :> mut.value) @@ tree.m)]
      [] mut.kind = "putIn" ->
            IF /\ mut.at \in DOMAIN tree.m
               /\ tree.m[mut.at].t = "mapslice"
               /\ Len(tree.m[mut.at].e) > 0
            THEN LET sl == tree.m[mut.at].e
                     elem == GoMap((mut.key :> mut.value) @@ sl[1].m)
                 IN  [err |-> "",
                      tree |-> GoMap((mut.at :> GoMapSlice([sl EXCEPT ![1] = elem]))
                                     @@ tree.m)]
            ELSE [err |-> "mutate failed", tree |-> tree]
      [] OTHER -> [err |-> "mutate failed", tree |-> tree]

TransformError(msg, loaded, mutated, rnd) ==
    [err |-> msg, data |-> TomlInvalid, fields |-> NoFields, written |-> FALSE,
     loaded |-> loaded, mutated |-> mutated, saved |-> SaveError(msg, rnd, 0),
     rnd |-> rnd]

\* Transform's return; sv is Save's result for the mutated tree.
TransformSaved(result, mutated, sv) ==
    [err |-> sv.err, data |-> sv.data, fields |-> sv.fields, written |-> sv.written,
     loaded |-> result, mutated |-> mutated, saved |-> sv, rnd |-> sv.rnd]

\* Transform going on to Save although the transform function failed.
TransformMutated_IgnoresError(result, m, opts, ordSave, rnd) ==
    TransformSaved(result, m.tree, Save(m.tree, opts, ordSave, rnd))

\* Transform after the mutate function returned m.
TransformMutated(result, m, opts, ordSave, rnd) ==
    IF m.err # "" THEN TransformError("transformation failed", result, m.tree, rnd)
    ELSE TransformSaved(result, m.tree, Save(m.tree, opts, ordSave, rnd))

\* Transform after Load returned result.
TransformLoaded(result, opts, mut, ordSave, rnd) ==
    IF result.err # ""
    THEN TransformError("failed to load configuration", result, GoNil, rnd)
    ELSE TransformMutated(result, Mutate(mut, result.Tree), opts, ordSave, rnd)

\* Transform; ordLoad and ordSave are the map iteration orders of its two walks.
Transform(data, opts, mut, ordLoad, ordSave, rnd) ==
    TransformLoaded(Load(data, opts, ordLoad), opts, mut, ordSave, rnd)

(***************************************************************************)
(* The inputs of the model.                                                *)
(***************************************************************************)
\* The longest run of calls the caller makes.
MaxOps == 4

Text(names) == [i \in 1..Len(names) |-> Ch(names[i])]

\* Keys: "private_a", "host", "private_n".
kPriv == Text(<<"P", "a">>)

kPub == Text(<<"h">>)

kNew == Text(<<"P", "n">>)

\* An armored block made with enc.Encrypt before the run: "a" sealed to r1.
SealedBefore == Encrypt(Text(<<"a">>), <<X25519("k1")>>, 0).armored

\* String leaves: plain text, text that is also JSON (12, "12", []), an
\* armored block, and text that only holds the markers.
LeafStrings ==
    { Text(<<"a">>), Text(<<"1", "2">>), Text(<<"Q", "1", "2", "Q">>),
      Text(<<"[", "]">>),
      SealedBefore, Text(<<"B", "E">>), Text(<<"E", "B", "x">>) }

Leaves ==
    {GoString(s) : s \in LeafStrings}
    \cup {GoInt(12), GoInt64Above(1), GoBool(TRUE), GoNaN}

PairLeaves == {GoString(Text(<<"a">>)), GoString(SealedBefore), GoInt(12)}

Tables == {GoMap(k :> l) : k \in {kPriv, kPub}, l \in Leaves}

ElementTables == {GoMap(k :> l) : k \in {kPriv, kPub}, l \in PairLeaves}

Values ==
    Leaves \cup Tables
    \cup {GoSlice(<<l>>) : l \in Leaves}
    \cup {GoSlice(<<GoString(Text(<<"a">>)), GoString(Text(<<"x">>))>>)}
    \cup {GoSlice(<<t>>) : t \in ElementTables}
    \cup {GoMapSlice(<<t>>) : t \in ElementTables}

\* The table t at the path host.host.host.
Below3(t) == GoMap(kPub :> GoMap(kPub :> GoMap(kPub :> t)))

\* Trees with nodes at depth four: two private leaves side by side, and a
\* private leaf beside a table.
DeepTrees ==
    { Below3(GoMap((kPriv :> GoString(Text(<<"a">>)))
                   @@ (kNew :> GoString(Text(<<"x">>))))),
      Below3(GoMap((kPriv :> GoString(Text(<<"a">>)))
                   @@ (kPub :> GoMap(kPub :> GoInt(12))))) }

\* The trees a caller hands to Save first.
Trees ==
    {GoMap(k :> v) : k \in {kPriv, kPub}, v \in Values}
    \cup {GoMap((kPriv :> a) @@ (kPub :> b)) : a \in PairLeaves, b \in PairLeaves}
    \cup {GoMap((kPriv :> GoNaN) @@ (kNew :> GoString(Text(<<"a">>))))}
    \cup {GoMap(kPub :> GoMapSlice(<<GoMap(kPriv :> GoSlice(<<GoInt(12)>>))>>))}
    \cup DeepTrees

KeySources(recipients, identities, passphrase) ==
    [Recipients |-> recipients, IdentitiesData |-> identities,
     Passphrase |-> passphrase]

KeyConfigs ==
    { KeySources(<<"r1">>, <<"i1">>, NoPassphrase),
      KeySources(<<"r1", "r2">>, <<"i2">>, NoPassphrase),
      KeySources(<<"r1">>, <<"i3">>, NoPassphrase),
      KeySources(<<"r1">>, <<>>, NoPassphrase),
      KeySources(<<>>, <<"i1">>, NoPassphrase),
      KeySources(<<"r1">>, <<"i1">>, "pw"),
      KeySources(<<>>, <<>>, "pw") }

Options(keys, shouldEncrypt) ==
    [Keys |-> keys, PrivatePrefix |-> <<>>, ShouldEncrypt |-> shouldEncrypt]

OptionsSet ==
    {Options(ks, "nil") : ks \in KeyConfigs}
    \cup {Options(KeySources(<<"r1">>, <<"i1">>, NoPassphrase), "strings")}

Mutations ==
    { Keep, Fail,
      Put(kPriv, GoString(Text(<<"x">>))),
      Put(kNew, GoString(Text(<<"1", "2">>))),
      PutIn(kPub, kNew, GoString(Text(<<"x">>))) }

Orders == {"asc", "desc"}

Predicates == {"private", "string", "all"}

\* The longest run of calls into package walk.
MaxWalks == 2

NoTree == [t |-> "none"]

NoData == [t |-> "none"]

(***************************************************************************)
(* The caller.  tree is the tree it holds (built by it, or the Tree of the *)
(* last Load), data the bytes it holds (of the last Save or Transform),    *)
(* opts its Options, rnd the randomness the next Encrypt draws, and log    *)
(* the calls made so far with their arguments and results.                 *)
(***************************************************************************)
VARIABLES tree, data, opts, rnd, log

vars == <<tree, data, opts, rnd, log>>

Init ==
    /\ tree \in Trees
    /\ data = NoData
    /\ opts \in OptionsSet
    /\ rnd = 1
    /\ log = <<>>

LastOp == IF log = <<>> THEN "none" ELSE log[Len(log)].op

Transformed == \E i \in 1..Len(log) : log[i].op = "Transform"

\* The caller takes Save's results r.
TookSave(r) ==
    /\ data' = IF r.err = "" THEN r.data ELSE data
    /\ rnd' = r.rnd
    /\ log' = Append(log, [op |-> "Save", in |-> tree, res |-> r])

\* The caller takes Load's results r.
TookLoad(r) ==
    /\ tree' = IF r.err = "" THEN r.Tree ELSE tree
    /\ log' = Append(log, [op |-> "Load", in |-> data, res |-> r])

\* The caller takes Transform's results r.
TookTransform(mut, r) ==
    /\ data' = IF r.err = "" THEN r.data ELSE data
    /\ rnd' = r.rnd
    /\ log' = Append(log, [op |-> "Transform", in |-> data, mut |-> mut, res |-> r])

\* data, fields, err := Save(tree, opts), on a tree the caller built or loaded
\* since its last Save.
DoSave ==
    /\ Len(log) < MaxOps
    /\ tree # NoTree
    /\ LastOp \in {"none", "Load"}
    /\ \E ord \in Orders : TookSave(Save(tree, opts, ord, rnd))
    /\ UNCHANGED <<tree, opts>>

\* result, err := Load(data, opts); tree = result.Tree
DoLoad ==
    /\ Len(log) < MaxOps
    /\ data # NoData
    /\ LastOp # "Load"
    /\ \E ord \in Orders : TookLoad(Load(data, opts, ord))
    /\ UNCHANGED <<data, opts, rnd>>

\* data, fields, err = Transform(data, opts, mutate), once, on bytes just saved.
DoTransform ==
    /\ Len(log) < MaxOps
    /\ data # NoData
    /\ LastOp = "Save"
    /\ ~Transformed
    /\ \E mut \in Mutations, ord \in Orders :
          TookTransform(mut, Transform(data, opts, mut, ord, ord, rnd))
    /\ UNCHANGED <<tree, opts>>

\* fields := walk.FindFields(tree, predicate)
DoFindFields ==
    /\ Len(log) < MaxWalks
    /\ tree # NoTree
    /\ \E predicate \in Predicates, ord \in Orders :
          log' = Append(log, [op |-> "FindFields", in |-> tree,
                              predicate |-> predicate,
                              res |-> FindFields(tree, predicate, ord)])
    /\ UNCHANGED <<tree, data, opts, rnd>>

Next == DoSave \/ DoLoad \/ DoTransform

Spec == Init /\ [][Next]_vars

(***************************************************************************)
(* Vocabulary of the properties.                                           *)
(***************************************************************************)
\* The nodes of a tree, each with the path and key walk hands the visitor
\* for it; the elements of a []map[string]any and their entries are nodes too.
RECURSIVE Nodes(_, _, _)
Nodes(path, key, v) ==
    {[path |-> path, key |-> key, v |-> v]}
    \cup (CASE v.t = "map" ->
                UNION {Nodes(CurrentPath(path, key), k, v.m[k]) : k \in DOMAIN v.m}
            [] v.t \in {"slice", "mapslice"} ->
                UNION {Nodes(CurrentPath(path, key), IndexKey(i - 1), v.e[i]) :
                          i \in 1..Len(v.e)}
            [] OTHER -> {})

TreeNodes(root) == Nodes(<<>>, <<>>, root)

\* The full path of a node: the parent's path and its own key.
Addr(n) == CurrentPath(n.path, n.key)

Missing == [t |-> "missing"]

\* The value a tree holds at a full path.
RECURSIVE At(_, _)
At(v, addr) ==
    IF addr = <<>> THEN v
    ELSE CASE v.t = "map" ->
                IF Head(addr) \in DOMAIN v.m THEN At(v.m[Head(addr)], Tail(addr))
                ELSE Missing
           [] v.t \in {"slice", "mapslice"} ->
                IF \E i \in 1..Len(v.e) : IndexKey(i - 1) = Head(addr)
                THEN At(v.e[CHOOSE i \in 1..Len(v.e) : IndexKey(i - 1) = Head(addr)],
                        Tail(addr))
                ELSE Missing
           [] OTHER -> Missing

IsLeaf(v) == ~IsContainer(v)

IsArmoredLeaf(v) == v.t = "string" /\ isArmoredData(v.s)

\* The policy of the run, as Save consults it.
Policy == setDefaults(opts)

Matches(n) == shouldEncryptField(Policy, n.path, n.key, n.v)

\* The nodes that do not lie below a node the policy matches.
Exposed(root) ==
    {n \in TreeNodes(root) :
        ~\E a \in TreeNodes(root) :
            /\ Matches(a)
            /\ Len(Addr(a)) < Len(Addr(n))
            /\ SubSeq(Addr(n), 1, Len(Addr(a))) = Addr(a)}

Identities == LoadIdentities(Policy.Keys)

Recipients == LoadRecipients(Policy.Keys)

\* The identities of the run open this armored text.
Openable(armored) == Identities.err = "" /\ Decrypt(armored, Identities.ids).err = ""

\* The identities of the run open what is sealed to its recipients.
AbleToOpen ==
    /\ Identities.err = ""
    /\ Recipients.err = ""
    /\ \E i \in 1..Len(Identities.ids) :
          \E j \in 1..Len(Recipients.rcpts) : Identities.ids[i] = Recipients.rcpts[j]

\* Sealing to the recipients of the run succeeds.
AbleToSeal == Recipients.err = "" /\ Encrypt(<<>>, Recipients.rcpts, 0).err = ""

HasRecord(fields, addr, armored) ==
    \E i \in 1..Len(fields) :
        /\ fields[i].Path = addr
        /\ fields[i].WasEncrypted
        /\ fields[i].Armored = armored

Calls(op) == {i \in 1..Len(log) : log[i].op = op}

\* A Transform call that reached its Save.
ReachedSave(i) ==
    /\ log[i].op = "Transform"
    /\ log[i].res.loaded.err = ""
    /\ Mutate(log[i].mut, log[i].res.loaded.Tree).err = ""

\* The Save passes made so far: those of Save calls and of Transform calls.
SavePasses ==
    {[in |-> log[i].in, res |-> log[i].res] : i \in Calls("Save")}
    \cup {[in |-> log[i].res.mutated, res |-> log[i].res.saved] :
             i \in {j \in Calls("Transform") : ReachedSave(j)}}

\* The Load passes made so far: those of Load calls and of Transform calls.
LoadPasses ==
    {log[i].res : i \in Calls("Load")}
    \cup {log[i].res.loaded : i \in Calls("Transform")}

(***************************************************************************)
(* Round trip.                                                             *)
(***************************************************************************)
\* A tree of maps and sequences whose leaves are all strings, none of them
\* armored text.
PlainStringTree(root) ==
    \A n \in TreeNodes(root) :
        \/ n.v.t \in {"map", "slice", "mapslice"}
        \/ n.v.t = "string" /\ ~isArmoredData(n.v.s)

\* A Save call and the Load call that reads its bytes, both successful.
SaveThenLoad(i) ==
    /\ i + 1 <= Len(log)
    /\ log[i].op = "Save" /\ log[i].res.err = ""
    /\ log[i + 1].op = "Load" /\ log[i + 1].res.err = ""

\* C1: for every plaintext tree whose leaves are all strings, saved to
\* recipients whose identities Load holds, the tree Load returns for the
\* bytes Save wrote is deeply equal to the tree Save was given: every string
\* comes back as the same string, whatever its content.
C1_StringRoundTrip ==
    \A i \in 1..Len(log) :
        (SaveThenLoad(i) /\ AbleToOpen /\ PlainStringTree(log[i].in))
            => log[i + 1].res.Tree = log[i].in

(***************************************************************************)
(* Shape.                                                                  *)
(***************************************************************************)
\* Two trees of the same shape: the same map keys and the same sequence
\* lengths at every level, a scalar wherever the other holds a scalar.
RECURSIVE SameShape(_, _)
SameShape(a, b) ==
    CASE a.t = "map" ->
            /\ b.t = "map"
            /\ DOMAIN b.m = DOMAIN a.m
            /\ \A k \in DOMAIN a.m : SameShape(a.m[k], b.m[k])
      [] a.t \in {"slice", "mapslice"} ->
            /\ b.t = a.t
            /\ Len(b.e) = Len(a.e)
            /\ \A i \in 1..Len(a.e) : SameShape(a.e[i], b.e[i])
      [] OTHER -> IsLeaf(b)

\* The same at one node: the same map keys or the same sequence length, and
\* for a scalar the same scalar.
SameNode(a, b) ==
    CASE a.t = "map" -> b.t = "map" /\ DOMAIN b.m = DOMAIN a.m
      [] a.t \in {"slice", "mapslice"} -> b.t = a.t /\ Len(b.e) = Len(a.e)
      [] OTHER -> b = a

\* C2 as stated: the tree a Save pass or a Load pass produces has the same
\* map keys and the same sequence length at every level as the tree it was
\* given; only scalar leaf values differ.
C2_ShapePreserved ==
    /\ \A p \in SavePasses : p.res.err = "" => SameShape(p.in, p.res.walked)
    /\ \A r \in LoadPasses : r.err = "" => SameShape(r.parsed, r.Tree)

\* C2, amended: the tree a Save pass or a Load pass produces has the same map
\* keys and the same sequence length as the tree it was given at every node
\* that is not at or below a node the pass replaced as a whole.  Save replaces
\* a node the policy matches, scalar or container, by one armored string (or
\* leaves it as it is); Load replaces an armored string leaf by its decoded
\* value, which can be a map or a sequence.  Every other scalar is unchanged.
C2_ShapeOutsideReplaced ==
    /\ \A p \in SavePasses :
          p.res.err = "" =>
              \A n \in Exposed(p.in) :
                  IF Matches(n)
                  THEN \/ At(p.res.walked, Addr(n)) = n.v
                       \/ IsArmoredLeaf(At(p.res.walked, Addr(n)))
                  ELSE SameNode(n.v, At(p.res.walked, Addr(n)))
    /\ \A r \in LoadPasses :
          r.err = "" =>
              \A n \in TreeNodes(r.parsed) :
                  IsArmoredLeaf(n.v) \/ SameNode(n.v, At(r.Tree, Addr(n)))

\* A Save pass sealed a map or a sequence into one string beside a key it left
\* alone, and the Load of its bytes put a container where the string stood.
C2_Witness ==
    \E i \in 1..Len(log) :
        /\ SaveThenLoad(i)
        /\ \E n \in Exposed(log[i].in) :
              /\ Matches(n) /\ IsContainer(n.v)
              /\ IsArmoredLeaf(At(log[i].res.walked, Addr(n)))
              /\ IsArmoredLeaf(At(log[i + 1].res.parsed, Addr(n)))
              /\ IsContainer(At(log[i + 1].res.Tree, Addr(n)))
        /\ \E n \in Exposed(log[i].in) : ~Matches(n) /\ IsContainer(n.v)

(***************************************************************************)
(* Which leaves are sealed, and where.                                     *)
(***************************************************************************)
PrefixPolicy == Policy.ShouldEncrypt = "nil"

\* C3: with the default prefix policy a successful Save replaces every leaf
\* whose key has the prefix by armored text (a leaf that already is armored
\* text stays) and leaves every leaf whose key lacks the prefix unchanged, at
\* any nesting depth.  Leaves below a container whose own key has the prefix
\* are sealed with it and are not judged one by one.
C3_PrefixSelective ==
    \A p \in SavePasses :
        (PrefixPolicy /\ p.res.err = "") =>
            \A n \in Exposed(p.in) :
                IsLeaf(n.v) =>
                    IF HasPrefix(n.key, Policy.PrivatePrefix)
                    THEN IsArmoredLeaf(At(p.res.walked, Addr(n)))
                    ELSE At(p.res.walked, Addr(n)) = n.v

\* C4: Save seals and Load opens the matching fields at every nesting level,
\* the elements of arrays of tables included.  A successful Save whose
\* recipients can be sealed to leaves armored text at every leaf the policy
\* matches and json.Marshal can encode; a successful Load leaves no armored
\* leaf that its identities open as it was.
C4_EveryLevel ==
    /\ \A p \in SavePasses :
          (p.res.err = "" /\ AbleToSeal) =>
              \A n \in Exposed(p.in) :
                  (IsLeaf(n.v) /\ Matches(n) /\ jsonEncodable(n.v)) =>
                      IsArmoredLeaf(At(p.res.walked, Addr(n)))
    /\ \A r \in LoadPasses :
          r.err = "" =>
              \A n \in TreeNodes(r.parsed) :
                  (IsArmoredLeaf(n.v) /\ Openable(n.v.s)) =>
                      At(r.Tree, Addr(n)) # n.v

\* The tree holds armored text at the path or at a node above it.
Protected(root, addr) ==
    \E j \in 0..Len(addr) : IsArmoredLeaf(At(root, SubSeq(addr, 1, j)))

\* A Load call and the Save call given the tree it returned, both successful.
LoadThenSave(i) ==
    /\ i + 1 <= Len(log)
    /\ log[i].op = "Load" /\ log[i].res.err = ""
    /\ log[i + 1].op = "Save" /\ log[i + 1].res.err = ""

\* C5: a leaf that was armored text in the bytes given to Transform, and that
\* the mutate function did not touch, is never plaintext in the bytes
\* Transform writes, whatever its key and wherever it sits; the same for a
\* Load followed by a Save with the same options.
C5_NeverPlaintext ==
    /\ \A i \in Calls("Transform") :
          (log[i].res.err = "" /\ log[i].mut = Keep) =>
              \A n \in TreeNodes(log[i].res.loaded.parsed) :
                  IsArmoredLeaf(n.v) => Protected(log[i].res.saved.walked, Addr(n))
    /\ \A i \in 1..Len(log) :
          LoadThenSave(i) =>
              \A n \in TreeNodes(log[i].res.parsed) :
                  IsArmoredLeaf(n.v) => Protected(log[i + 1].res.walked, Addr(n))

\* C6: a successful Save leaves a leaf that already holds armored text under a
\* key the policy matches exactly as it was, and still emits a record for it.
C6_ArmoredKept ==
    \A p \in SavePasses :
        p.res.err = "" =>
            \A n \in Exposed(p.in) :
                (IsArmoredLeaf(n.v) /\ Matches(n)) =>
                    /\ At(p.res.walked, Addr(n)) = n.v
                    /\ HasRecord(p.res.fields, Addr(n), n.v.s)

(***************************************************************************)
(* Repeated passes, missing keys, Transform.                               *)
(***************************************************************************)
\* C7: Save, Load, Save and Load again, all successful and with the same
\* options: the second Load returns a tree deeply equal to the first one's,
\* no value and no value's type changed.
C7_SecondPassSame ==
    \A i \in 1..Len(log) :
        (SaveThenLoad(i) /\ i + 3 <= Len(log) /\ SaveThenLoad(i + 2))
            => log[i + 3].res.Tree = log[i + 1].res.Tree

\* C8: Load of a document that parses, with identities that load, returns no
\* error; every armored leaf its identities cannot open is in the returned
\* tree as it was, with a record holding its armored text; every armored leaf
\* they can open is decrypted.
C8_LoadDegrades ==
    \A i \in Calls("Load") :
        (tomlUnmarshal(log[i].in).ok /\ Identities.err = "") =>
            /\ log[i].res.err = ""
            /\ \A n \in TreeNodes(log[i].res.parsed) :
                  IsArmoredLeaf(n.v) =>
                      IF Openable(n.v.s)
                      THEN At(log[i].res.Tree, Addr(n)) # n.v
                      ELSE /\ At(log[i].res.Tree, Addr(n)) = n.v
                           /\ HasRecord(log[i].res.Fields, Addr(n), n.v.s)

\* The recipient sources of the run load, and hold no recipient.
NoRecipients == Recipients.err = "" /\ Len(Recipients.rcpts) = 0

\* C9: Save with recipient sources that hold no recipient returns an error
\* before any node is visited: no visitor call, no bytes, no records, nothing
\* sealed; the caller's bytes stay as they were.
C9_NoRecipientsNoOutput ==
    \A p \in SavePasses :
        NoRecipients =>
            /\ p.res.err = "no recipients available for encryption"
            /\ p.res.visits = 0
            /\ ~p.res.written
            /\ p.res.data = TomlInvalid
            /\ p.res.fields = NoFields
            /\ p.res.walked = GoNil

\* Save was called with no recipient, on a tree with a leaf the policy matches.
C9_Witness ==
    /\ NoRecipients
    /\ \E i \in Calls("Save") :
          /\ log[i].res.err # ""
          /\ \E n \in TreeNodes(log[i].in) : IsLeaf(n.v) /\ Matches(n)
    /\ data = NoData

\* C10: after a successful Transform every leaf of the mutated tree the policy
\* matches is armored text in the output and has a record, and a Load of the
\* output with identities for its recipients returns exactly the values the
\* mutate function left in the tree.
C10_TransformSeals ==
    \A i \in Calls("Transform") :
        log[i].res.err = "" =>
            /\ \A n \in Exposed(log[i].res.mutated) :
                  (IsLeaf(n.v) /\ Matches(n)) =>
                      /\ IsArmoredLeaf(At(log[i].res.saved.walked, Addr(n)))
                      /\ HasRecord(log[i].res.fields, Addr(n),
                                   At(log[i].res.saved.walked, Addr(n)).s)
            /\ (/\ i + 1 <= Len(log)
                /\ log[i + 1].op = "Load"
                /\ log[i + 1].res.err = ""
                /\ AbleToOpen) => log[i + 1].res.Tree = log[i].res.mutated

(***************************************************************************)
(* Transform on its own: a caller that holds bytes of any origin and calls *)
(* Transform on them, with key sources that may fail to load.              *)
(***************************************************************************)
\* The number of Transform calls this caller makes.
MaxTransforms == 2

\* "[null]" sealed to r1: it decodes to a []any holding nil, which the TOML
\* encoder rejects.
SealedNullList ==
    Encrypt(Text(<<"[", "null", "]">>), <<X25519("k1")>>, 0).armored

\* The bytes handed to Transform: no TOML at all, and the documents of a
\* plain leaf, of a sealed private leaf, and of a sealed public leaf holding
\* "[null]".
TransformDocs ==
    { TomlInvalid,
      tomlMarshal(GoMap(kPub :> GoString(Text(<<"a">>)))).data,
      tomlMarshal(GoMap(kPriv :> GoString(SealedBefore))).data,
      tomlMarshal(GoMap(kPub :> GoString(SealedNullList))).data }

\* Key sources that load, that hold a malformed identity, a malformed
\* recipient, no recipient, a failing passphrase provider, and a passphrase
\* beside a recipient.
TransformKeys ==
    { KeySources(<<"r1">>, <<"i1">>, NoPassphrase),
      KeySources(<<"r1">>, <<"bad">>, NoPassphrase),
      KeySources(<<"bad">>, <<"i1">>, NoPassphrase),
      KeySources(<<>>, <<"i1">>, NoPassphrase),
      KeySources(<<"r1">>, <<"i1">>, PassphraseError),
      KeySources(<<"r1">>, <<"i1">>, "pw") }

\* The transform functions: no change, an error, a new private leaf, and a
\* public leaf the TOML encoder rejects.
TransformMutations ==
    { Keep, Fail,
      Put(kPriv, GoString(Text(<<"x">>))),
      Put(kPub, GoSlice(<<GoNil>>)) }

InitTransform ==
    /\ tree = NoTree
    /\ data \in TransformDocs
    /\ opts \in {Options(ks, "nil") : ks \in TransformKeys}
    /\ rnd = 1
    /\ log = <<>>

DoTransformAny ==
    /\ Len(log) < MaxTransforms
    /\ \E mut \in TransformMutations, ord \in Orders :
          TookTransform(mut, Transform(data, opts, mut, ord, ord, rnd))
    /\ UNCHANGED <<tree, opts>>

NextTransform == DoTransformAny

SpecTransform == InitTransform /\ [][NextTransform]_vars

\* The TOML encoder rejects what Save's walk leaves of this tree: a sequence
\* holding nil that the policy does not seal.
LeavesUnencodable(root) ==
    \E n \in Exposed(root) :
        /\ ~Matches(n)
        /\ n.v.t = "slice"
        /\ \E j \in 1..Len(n.v.e) : n.v.e[j].t = "nil"

\* The first step of Transform that fails for these bytes and this transform
\* function, as the error Transform returns for it; "" when none fails.
FirstFailure(bytes, mut) ==
    IF ~tomlUnmarshal(bytes).ok \/ Identities.err # ""
    THEN "failed to load configuration"
    ELSE IF mut = Fail THEN "transformation failed"
    ELSE IF Recipients.err # "" THEN "failed to load recipients"
    ELSE IF Len(Recipients.rcpts) = 0 THEN "no recipients available for encryption"
    ELSE IF LeavesUnencodable(Mutate(mut, Load(bytes, opts, "asc").Tree).tree)
    THEN "failed to marshal TOML"
    ELSE ""

\* C11: when parsing, identity loading, the transform function, recipient
\* loading or serialization fails, Transform returns the error of the first
\* step that failed, with no bytes and no records, and the caller's bytes are
\* what they were; when none fails it returns bytes.
C11_TransformFirstError ==
    \A i \in Calls("Transform") :
        /\ log[i].res.err = FirstFailure(log[i].in, log[i].mut)
        /\ log[i].res.err = "" => log[i].res.written
        /\ log[i].res.err # "" =>
              /\ ~log[i].res.written
              /\ log[i].res.data = TomlInvalid
              /\ log[i].res.fields = NoFields
              /\ IF i = Len(log) THEN data = log[i].in
                 ELSE log[i + 1].in = log[i].in

\* Transform failed in its transform function and, on the same bytes, in
\* serialization.
C11_Witness ==
    /\ \E i \in Calls("Transform") : log[i].res.err = "transformation failed"
    /\ \E i \in Calls("Transform") :
          /\ log[i].res.err = "failed to marshal TOML"
          /\ log[i].res.loaded.err = ""
          /\ data = log[i].in

(***************************************************************************)
(* Values that are not strings.                                            *)
(***************************************************************************)
IsNumber(v) == v.t \in {"int", "int64", "float64", "int64+", "float64+"}

\* Two numbers of equal value, whatever their representation.
SameNumber(a, b) ==
    /\ IsNumber(a) /\ IsNumber(b)
    /\ (a.t \in {"int64+", "float64+"}) = (b.t \in {"int64+", "float64+"})
    /\ a.n = b.n

\* Equal values, a number counting as equal to a number of equal value in
\* another representation and a sequence to a sequence of equal elements.
RECURSIVE SameValue(_, _)
SameValue(a, b) ==
    CASE IsNumber(a) -> SameNumber(a, b)
      [] a.t = "map" ->
            /\ b.t = "map"
            /\ DOMAIN b.m = DOMAIN a.m
            /\ \A k \in DOMAIN a.m : SameValue(a.m[k], b.m[k])
      [] a.t \in {"slice", "mapslice"} ->
            /\ b.t \in {"slice", "mapslice"}
            /\ Len(b.e) = Len(a.e)
            /\ \A j \in 1..Len(a.e) : SameValue(a.e[j], b.e[j])
      [] OTHER -> b = a

\* A value encoded by json.Marshal and decoded by json.Unmarshal.
jsonRoundTrip(v) == jsonUnmarshal(jsonMarshal(v).b).v

\* C12: a policy-matching value that is not a string (a number, a boolean, a
\* sequence or a map) and that json.Marshal can encode comes back from Save and
\* Load with matching identities as the value its JSON encoding decodes to: a
\* number is a number of equal value, a boolean the same boolean, a container
\* has its entries, and none is a string.
C12_NonStringRoundTrip ==
    \A i \in 1..Len(log) :
        (SaveThenLoad(i) /\ AbleToOpen) =>
            \A n \in Exposed(log[i].in) :
                (Matches(n) /\ n.v.t \notin {"string", "nil"} /\ jsonEncodable(n.v)) =>
                    /\ At(log[i + 1].res.Tree, Addr(n)).t # "string"
                    /\ SameValue(n.v, At(log[i + 1].res.Tree, Addr(n)))
                    /\ SameValue(jsonRoundTrip(n.v), At(log[i + 1].res.Tree, Addr(n)))

(***************************************************************************)
(* What counts as already encrypted.                                       *)
(***************************************************************************)
\* The text holds the begin marker and, after it, the end marker.
MarkersInOrder(s) ==
    \E i \in 1..Len(s) : \E j \in (i + 1)..Len(s) :
        <<s[i]>> = BeginMarker /\ <<s[j]>> = EndMarker

\* A node is a string with the markers in order.
LooksSealed(v) == v.t = "string" /\ MarkersInOrder(v.s)

\* Save treated the node as already encrypted: it left it as it was and
\* recorded it with its own text.
SaveSkipped(p, n) ==
    /\ n.v.t = "string"
    /\ At(p.res.walked, Addr(n)) = n.v
    /\ HasRecord(p.res.fields, Addr(n), n.v.s)

\* Load treated the node as encrypted: it recorded it with its own text.
LoadTookSealed(r, n) ==
    /\ n.v.t = "string"
    /\ HasRecord(r.Fields, Addr(n), n.v.s)

\* C13: Save (at a node its policy matches) and Load treat a value as already
\* encrypted if and only if it is a string that holds the begin marker and the
\* end marker, the begin marker before the end marker.
C13_ArmoredIffMarkersInOrder ==
    /\ \A p \in SavePasses :
          p.res.err = "" =>
              \A n \in Exposed(p.in) :
                  Matches(n) => (SaveSkipped(p, n) <=> LooksSealed(n.v))
    /\ \A r \in LoadPasses :
          r.err = "" =>
              \A n \in TreeNodes(r.parsed) :
                  LoadTookSealed(r, n) <=> LooksSealed(n.v)

(***************************************************************************)
(* The policy on its own: a caller that saves small trees under every      *)
(* combination of a ShouldEncrypt function and a PrivatePrefix.            *)
(***************************************************************************)
kSecret == Text(<<"S", "x">>)

\* Options with a PrivatePrefix; <<>> is the unset prefix.
OptionsWithPrefix(keys, prefix, shouldEncrypt) ==
    [Options(keys, shouldEncrypt) EXCEPT !.PrivatePrefix = prefix]

PolicyOptions ==
    {OptionsWithPrefix(KeySources(<<"r1">>, <<"i1">>, NoPassphrase), prefix, f) :
        prefix \in {<<>>, kPub, <<Ch("S")>>}, f \in {"nil", "secret", "strings"}}

PolicyValues ==
    { GoString(Text(<<"a">>)), GoInt(12),
      GoMap(kPriv :> GoString(Text(<<"a">>))),
      GoMap(kSecret :> GoInt(12)) }

PolicyTrees == {GoMap(k :> v) : k \in {kPriv, kPub, kSecret}, v \in PolicyValues}

InitPolicy ==
    /\ tree \in PolicyTrees
    /\ data = NoData
    /\ opts \in PolicyOptions
    /\ rnd = 1
    /\ log = <<>>

NextPolicy == DoSave

SpecPolicy == InitPolicy /\ [][NextPolicy]_vars

\* The decision the caller's Options ask for at a node.
Asked(n) ==
    IF opts.ShouldEncrypt # "nil"
    THEN CustomShouldEncrypt(opts.ShouldEncrypt, n.path, n.key, n.v)
    ELSE HasPrefix(n.key, IF opts.PrivatePrefix = <<>> THEN Text(<<"P">>)
                          ELSE opts.PrivatePrefix)

\* The node lies below a node that the Options ask to encrypt.
BelowAsked(root, n) ==
    \E a \in TreeNodes(root) :
        /\ Asked(a)
        /\ Len(Addr(a)) < Len(Addr(n))
        /\ SubSeq(Addr(n), 1, Len(Addr(a))) = Addr(a)

\* Save decided to encrypt the node: the output holds armored text there,
\* recorded with its path.
SaveEncrypted(p, n) ==
    /\ IsArmoredLeaf(At(p.res.walked, Addr(n)))
    /\ HasRecord(p.res.fields, Addr(n), At(p.res.walked, Addr(n)).s)

\* C14: the encryption decision Save takes for a node it reaches is the result
\* of the caller's ShouldEncrypt(path, key, value) when one is supplied, the
\* prefix not being consulted; otherwise it is "key starts with
\* PrivatePrefix", an unset prefix meaning "private_".
C14_DecisionIsPolicy ==
    \A p \in SavePasses :
        p.res.err = "" =>
            \A n \in TreeNodes(p.in) :
                ~BelowAsked(p.in, n) => (SaveEncrypted(p, n) <=> Asked(n))

\* Save ran with a ShouldEncrypt function that refused a key with the set
\* prefix and accepted a key without it.
C14_Witness ==
    \E p \in SavePasses :
        /\ p.res.err = ""
        /\ opts.ShouldEncrypt = "secret"
        /\ opts.PrivatePrefix = kPub
        /\ \E n \in TreeNodes(p.in) :
              HasPrefix(n.key, kPub) /\ ~Asked(n) /\ ~SaveEncrypted(p, n)
        /\ \E n \in TreeNodes(p.in) :
              ~HasPrefix(n.key, kPub) /\ Asked(n) /\ SaveEncrypted(p, n)

(***************************************************************************)
(* The records.                                                            *)
(***************************************************************************)
\* The recipients of the run as the records list them: the recipient strings
\* in their order, then "passphrase" when a passphrase is given.
ListedRecipients ==
    Policy.Keys.Recipients
    \o (IF Policy.Keys.Passphrase # NoPassphrase THEN <<"passphrase">> ELSE <<>>)

\* Save sealed the node: the output holds armored text where the input held
\* something else.
SaveSealedNode(p, n) ==
    /\ At(p.res.walked, Addr(n)) # n.v
    /\ IsArmoredLeaf(At(p.res.walked, Addr(n)))

\* The node lies below a node Save sealed.
BelowSealed(p, n) ==
    \E a \in TreeNodes(p.in) :
        /\ SaveSealedNode(p, a)
        /\ Len(Addr(a)) < Len(Addr(n))
        /\ SubSeq(Addr(n), 1, Len(Addr(a))) = Addr(a)

\* The node was already armored text under a key the policy matches, in a
\* part of the tree Save did not seal as a whole.
AlreadyArmored(p, n) == IsArmoredLeaf(n.v) /\ Matches(n) /\ ~BelowSealed(p, n)

RecordsAt(fields, addr) == {j \in 1..Len(fields) : fields[j].Path = addr}

\* C15: a successful Save returns exactly one record for each node it sealed
\* or skipped as already armored and none for any other node; every record has
\* WasEncrypted true, Armored equal to the text at its node in the output,
\* UsedRecipients equal to the recipient list of the call in order, and
\* UsedPassphrase true exactly when a passphrase recipient is among them.
C15_SaveRecords ==
    \A p \in SavePasses :
        p.res.err = "" =>
            /\ \A n \in TreeNodes(p.in) :
                  Cardinality(RecordsAt(p.res.fields, Addr(n)))
                      = IF SaveSealedNode(p, n) \/ AlreadyArmored(p, n) THEN 1 ELSE 0
            /\ \A j \in 1..Len(p.res.fields) :
                  /\ \E n \in TreeNodes(p.in) : Addr(n) = p.res.fields[j].Path
                  /\ p.res.fields[j].WasEncrypted
                  /\ At(p.res.walked, p.res.fields[j].Path)
                         = GoString(p.res.fields[j].Armored)
                  /\ p.res.fields[j].UsedRecipients = ListedRecipients
                  /\ p.res.fields[j].UsedPassphrase
                         = (Policy.Keys.Passphrase # NoPassphrase)

\* C16: a successful Load leaves every leaf that is not an armored string as
\* it was and emits no record for it, emits no record for a map or a sequence,
\* and emits exactly one record for every string leaf that matches the
\* ciphertext heuristic; every record holds armored text.
C16_LoadRecords ==
    \A r \in LoadPasses :
        r.err = "" =>
            /\ \A n \in TreeNodes(r.parsed) :
                  /\ (IsLeaf(n.v) /\ ~IsArmoredLeaf(n.v)) => At(r.Tree, Addr(n)) = n.v
                  /\ Cardinality(RecordsAt(r.Fields, Addr(n)))
                         = IF IsArmoredLeaf(n.v) THEN 1 ELSE 0
            /\ \A j \in 1..Len(r.Fields) :
                  r.Fields[j].WasEncrypted /\ isArmoredData(r.Fields[j].Armored)

(***************************************************************************)
(* Failures inside Save's walk.                                            *)
(***************************************************************************)
\* The node lies inside a []map[string]any.
InsideTypedSlice(root, n) ==
    \E a \in TreeNodes(root) :
        /\ a.v.t = "mapslice"
        /\ Len(Addr(a)) < Len(Addr(n))
        /\ SubSeq(Addr(n), 1, Len(Addr(a))) = Addr(a)

\* The nodes Save's visitor is called for: those not inside a
\* []map[string]any and not below a node Save sealed.
SaveReached(p) ==
    {n \in TreeNodes(p.in) : ~InsideTypedSlice(p.in, n) /\ ~BelowSealed(p, n)}

\* Encoding or sealing fails for the node: the policy matches it, it is not
\* armored text, and json.Marshal cannot encode it or enc.Encrypt fails for
\* the recipients of the run.
SealFails(n) ==
    /\ Matches(n)
    /\ ~IsArmoredLeaf(n.v)
    /\ \/ n.v.t # "string" /\ ~jsonEncodable(n.v)
       \/ ~AbleToSeal

C17_WitnessSeal ==
    \E p \in SavePasses :
        /\ p.res.err = ""
        /\ ~AbleToSeal
        /\ \E n \in SaveReached(p) : IsLeaf(n.v) /\ SealFails(n)

(***************************************************************************)
(* package walk on its own: a caller that holds a tree and calls Walk and  *)
(* GetValue on it.                                                         *)
(***************************************************************************)
\* The empty string as a map key, written "" in TOML.
kEmpty == <<>>

WalkLeaves == {GoString(Text(<<"a">>)), GoInt(12)}

WalkTables == {GoMap(kPub :> l) : l \in WalkLeaves} \cup {EmptyMap}

WalkValues ==
    WalkLeaves \cup WalkTables
    \cup {GoSlice(<<>>), GoSlice(<<GoInt(12), GoString(Text(<<"a">>))>>)}
    \cup {GoSlice(<<t>>) : t \in WalkTables}
    \cup {GoSlice(<<GoSlice(<<GoInt(12)>>)>>)}
    \cup {GoMapSlice(<<GoMap(kPub :> GoInt(12))>>)}
    \cup {GoMap(kPub :> GoMap(kPriv :> GoInt(12)))}

\* The trees the caller holds: a key with each value, tables whose key is
\* the empty string, and tables holding a nil slice, a nil map and nil.
WalkTrees ==
    {GoMap(k :> v) : k \in {kPriv, kPub}, v \in WalkValues}
    \cup {GoMap(kEmpty :> v) :
             v \in {GoInt(12), GoMap(kPub :> GoInt(12)), GoSlice(<<GoInt(12)>>)}}
    \cup {GoMap((kEmpty :> GoMap(kPub :> GoInt(12)))
                @@ (kPub :> GoString(Text(<<"a">>))))}
    \cup {GoMap(kPub :> v) : v \in {GoNilSlice, GoNilMap, GoNil}}
    \cup {GoMap((kPriv :> GoMap(kPub :> GoInt(12)))
                @@ (kPub :> GoString(Text(<<"a">>))))}
    \cup DeepTrees

\* The paths the caller asks GetValue for: those of the tree's nodes, and
\* some the tree does not hold.
WalkPaths(root) ==
    {Addr(n) : n \in TreeNodes(root)}
    \cup {<<kNew>>, <<kPub, IndexKey(5)>>, <<kPub, kPub, kPub>>,
          <<kPub, Text(<<"[", "x", "]">>)>>, <<kPub, Text(<<"[", "1", "x", "]">>)>>,
          <<kPub, Text(<<"[", "0", "1", "]">>)>>}

InitWalk ==
    /\ tree \in WalkTrees
    /\ data = NoData
    /\ opts = Options(KeySources(<<>>, <<>>, NoPassphrase), "nil")
    /\ rnd = 1
    /\ log = <<>>

\* tree = Walk(tree, visit) with a visitor that returns (value, true).
DoWalk ==
    /\ Len(log) < MaxWalks
    /\ \E ord \in Orders :
          LET w == Walk([op |-> "identity", ord |-> ord], tree, NewAcc(0))
          IN  /\ tree' = w.v
              /\ log' = Append(log, [op |-> "Walk", in |-> tree, res |-> w.v,
                                     visits |-> w.acc.visits])
    /\ UNCHANGED <<data, opts, rnd>>

\* Walk(tree, visit) with the visitor that calls GetValue for each node.
DoLookup ==
    /\ Len(log) < MaxWalks
    /\ \E ord \in Orders :
          LET w == Walk([op |-> "lookup", ord |-> ord, root |-> tree], tree, NewAcc(0))
          IN  log' = Append(log, [op |-> "Lookup", in |-> tree,
                                  calls |-> w.acc.fields])
    /\ UNCHANGED <<tree, data, opts, rnd>>

\* value, found := GetValue(tree, path)
DoGetValue ==
    /\ Len(log) < MaxWalks
    /\ \E path \in WalkPaths(tree) :
          log' = Append(log, [op |-> "GetValue", in |-> tree, path |-> path,
                              res |-> GetValue(tree, path)])
    /\ UNCHANGED <<tree, data, opts, rnd>>

NextWalk == DoWalk \/ DoLookup \/ DoGetValue \/ DoFindFields

SpecWalk == InitWalk /\ [][NextWalk]_vars

\* The calls the visitor received in the Lookup passes made so far.
LookupCalls ==
    UNION {{[in |-> log[i].in, call |-> log[i].calls[j]] :
               j \in 1..Len(log[i].calls)} : i \in Calls("Lookup")}

\* C18: for every leaf Walk visits, GetValue on the walked tree with the path
\* the visitor was passed followed by the key it was passed returns the
\* leaf's value and found = true.
C18_GetValueFindsVisitedLeaf ==
    \A c \in LookupCalls :
        IsLeaf(c.call.value) =>
            c.call.got = Found(c.call.value)

\* C19: Walk with a visitor that returns every value unchanged and
\* continue = true returns a tree deep-equal to the one it was given.
C19_IdentityWalkDeepEqual ==
    \A i \in Calls("Walk") : log[i].res = log[i].in

(***************************************************************************)
(* The paths of the records: a caller that saves and loads trees with      *)
(* private leaves side by side at depths one to four, and searches them    *)
(* with FindFields.                                                        *)
(***************************************************************************)
RecordTrees ==
    DeepTrees
    \cup { GoMap((kPriv :> GoString(Text(<<"a">>)))
                 @@ (kNew :> GoString(Text(<<"x">>)))),
           GoMap(kPub :> GoMap(kPub :>
               GoMap((kPriv :> GoString(Text(<<"a">>)))
                     @@ (kNew :> GoString(Text(<<"x">>)))))),
           GoMap(kPub :> GoSlice(<<
               GoMap((kPriv :> GoString(Text(<<"a">>)))
                     @@ (kPub :> GoMap(kPub :> GoInt(12))))>>)) }

InitRecords ==
    /\ tree \in RecordTrees
    /\ data = NoData
    /\ opts \in {Options(KeySources(<<"r1">>, ids, NoPassphrase), "nil") :
                    ids \in {<<"i1">>, <<"i3">>}}
    /\ rnd = 1
    /\ log = <<>>

NextRecords == DoSave \/ DoLoad \/ DoFindFields

SpecRecords == InitRecords /\ [][NextRecords]_vars

\* No two records of one pass carry the same path.
DistinctPaths(fields) ==
    \A j, k \in 1..Len(fields) : j # k => fields[j].Path # fields[k].Path

\* Every record of Save's pass carries the path of the armored text it was
\* written for.
SavePathsKept(p) ==
    \A j \in 1..Len(p.res.fields) :
        At(p.res.walked, p.res.fields[j].Path) = GoString(p.res.fields[j].Armored)

\* The path leads into a container Load decrypted: the document holds
\* armored text at a shorter path.
InsideDecrypted(root, path) ==
    \E k \in 1..(Len(path) - 1) : IsArmoredLeaf(At(root, SubSeq(path, 1, k)))

\* Every record of Load's pass carries the path of the armored text it was
\* written for, in the document or in a container Load decrypted.
LoadPathsKept(r) ==
    \A j \in 1..Len(r.Fields) :
        \/ At(r.parsed, r.Fields[j].Path) = GoString(r.Fields[j].Armored)
        \/ InsideDecrypted(r.parsed, r.Fields[j].Path)

\* The records FindFields wrote for the nodes below the root (the root call
\* has the empty key).
BelowRoot(fields) == SelectSeq(fields, LAMBDA f : f.Key # <<>>)

\* Every record of FindFields carries the path of the node it was written
\* for: it ends with the record's key and leads to the record's value.
FindPathsKept(fields, root) ==
    \A j \in 1..Len(fields) :
        /\ fields[j].Path[Len(fields[j].Path)] = fields[j].Key
        /\ At(root, fields[j].Path) = fields[j].Value

\* C20: every record returned by Load, Save or FindFields carries the full
\* path of the node it was created for, and no later visit of the pass
\* alters it: the records of one pass have distinct paths, each leading to
\* the node of its record.
C20_RecordPathsKept ==
    /\ \A p \in SavePasses :
          p.res.err = "" => SavePathsKept(p) /\ DistinctPaths(p.res.fields)
    /\ \A r \in LoadPasses :
          r.err = "" => LoadPathsKept(r) /\ DistinctPaths(r.Fields)
    /\ \A i \in Calls("FindFields") :
          /\ FindPathsKept(BelowRoot(log[i].res), log[i].in)
          /\ DistinctPaths(log[i].res)

(***************************************************************************)
(* The visitor's calls.                                                    *)
(***************************************************************************)
\* The entries of a container whose complete path is full, and the entries
\* below them, each with the complete path of its parent container.
RECURSIVE Entries(_, _)
Entries(full, v) ==
    CASE v.t = "map" ->
            UNION {{[path |-> full, key |-> k, value |-> v.m[k]]}
                   \cup Entries(Append(full, k), v.m[k]) : k \in DOMAIN v.m}
      [] v.t \in {"slice", "mapslice"} ->
            UNION {{[path |-> full, key |-> IndexKey(i - 1), value |-> v.e[i]]}
                   \cup Entries(Append(full, IndexKey(i - 1)), v.e[i]) :
                      i \in 1..Len(v.e)}
      [] OTHER -> {}

\* What the visitor was passed in a call.
Passed(call) == [path |-> call.path, key |-> call.key, value |-> call.value]

\* C21: the path passed to the visitor for a node is the complete path of
\* its parent container: after the root call (empty path, empty key) every
\* call is for an entry of the tree with the path of the container that holds
\* it, the "" segments of containers stored under the empty key included.
C21_PathIsParentPath ==
    \A i \in Calls("Lookup") :
        /\ Passed(log[i].calls[1]) = [path |-> <<>>, key |-> <<>>, value |-> log[i].in]
        /\ \A j \in 2..Len(log[i].calls) :
              Passed(log[i].calls[j]) \in Entries(<<>>, log[i].in)

(***************************************************************************)
(* The order of the visits.                                                *)
(***************************************************************************)
PathsOf(fields) == [j \in 1..Len(fields) |-> fields[j].Path]

PathSet(fields) == {fields[j].Path : j \in 1..Len(fields)}

KeysOf(fields) == [j \in 1..Len(fields) |-> fields[j].Key]

\* Two trees hold nodes at the same paths, and armored text at the same
\* paths.
SameKeys(a, b) ==
    /\ {Addr(n) : n \in TreeNodes(a)} = {Addr(n) : n \in TreeNodes(b)}
    /\ {Addr(n) : n \in {x \in TreeNodes(a) : IsArmoredLeaf(x.v)}}
         = {Addr(n) : n \in {x \in TreeNodes(b) : IsArmoredLeaf(x.v)}}

\* C22: Walk visits the keys of a map in one order, the same on every run:
\* two searches of one tree with one predicate return the records of the same
\* nodes in the same sequence, two Save passes over one tree return their
\* records in the same order, and so do two Load passes over documents that
\* hold armored text at the same keys, open to the same tree and yield
\* records for the same paths.
C22_SameOrderEveryRun ==
    /\ \A i, j \in Calls("FindFields") :
          (log[i].in = log[j].in /\ log[i].predicate = log[j].predicate) =>
              KeysOf(log[i].res) = KeysOf(log[j].res)
    /\ \A p, q \in SavePasses :
          (p.in = q.in /\ p.res.err = "" /\ q.res.err = "") =>
              PathsOf(p.res.fields) = PathsOf(q.res.fields)
    /\ \A p, q \in LoadPasses :
          (p.err = "" /\ q.err = "" /\ SameKeys(p.parsed, q.parsed)
           /\ p.Tree = q.Tree /\ PathSet(p.Fields) = PathSet(q.Fields)) =>
              PathsOf(p.Fields) = PathsOf(q.Fields)

(***************************************************************************)
(* Containers under a matching key.                                        *)
(***************************************************************************)
\* The node lies below the node a.
Below(a, n) ==
    /\ Len(Addr(a)) < Len(Addr(n))
    /\ SubSeq(Addr(n), 1, Len(Addr(a))) = Addr(a)

\* The output of the pass holds, at the node, one armored text whose
\* payload is json.Marshal's text of the node's whole value.
SealedWhole(p, n) ==
    /\ IsArmoredLeaf(At(p.res.walked, Addr(n)))
    /\ \E i \in 1..Len(At(p.res.walked, Addr(n)).s) :
          /\ At(p.res.walked, Addr(n)).s[i].c = "#"
          /\ At(p.res.walked, Addr(n)).s[i].data = jsonEncode(n.v)

\* C23: when the policy matches a node whose value is a map or a sequence
\* (and encoding and sealing do not fail), Save seals the whole value as one
\* ciphertext string with one record, and does not visit, encrypt or record
\* any of its descendants.
C23_ContainerSealedWhole ==
    \A p \in SavePasses :
        p.res.err = "" =>
            \A n \in Exposed(p.in) :
                (Matches(n) /\ IsContainer(n.v) /\ ~SealFails(n)) =>
                    /\ SealedWhole(p, n)
                    /\ Cardinality(RecordsAt(p.res.fields, Addr(n))) = 1
                    /\ \A d \in TreeNodes(p.in) :
                          Below(n, d) => RecordsAt(p.res.fields, Addr(d)) = {}
                    /\ p.res.visits =
                          Cardinality({d \in TreeNodes(p.in) :
                                          /\ ~InsideTypedSlice(p.in, d)
                                          /\ ~\E a \in Exposed(p.in) :
                                                /\ Matches(a)
                                                /\ ~IsArmoredLeaf(a.v)
                                                /\ ~SealFails(a)
                                                /\ Below(a, d)})

(***************************************************************************)
(* Every node once, parents first.                                         *)
(***************************************************************************)
\* The call was made for the entry e of the tree (the path as walk writes
\* it, which leaves out the segments of empty keys).
CallFor(call, e) ==
    /\ call.key = e.key
    /\ call.value = e.value
    /\ call.path = SelectSeq(e.path, LAMBDA x : x # <<>>)

\* Call i was made for the container that holds the node of call j.
ParentCall(calls, i, j) ==
    /\ IsContainer(calls[i].value)
    /\ CurrentPath(calls[i].path, calls[i].key) = calls[j].path
    /\ [path |-> <<>>, key |-> calls[j].key, value |-> calls[j].value]
          \in {[path |-> <<>>, key |-> e.key, value |-> e.value] :
                  e \in {x \in Entries(<<>>, calls[i].value) : x.path = <<>>}}

\* The calls for the elements of one sequence come in ascending index order.
ElementsAscending(calls) ==
    \A j, k \in 2..Len(calls) :
        \A a, b \in 0..(Len(calls) - 1) :
            (/\ calls[j].path = calls[k].path
             /\ calls[j].key = IndexKey(a)
             /\ calls[k].key = IndexKey(b)
             /\ a < b) => j < k

\* C24: with a visitor that always continues, Walk calls the visitor once
\* for the root and once for every map entry and every sequence element, the
\* elements of a sequence in ascending index order under the key "[i]", and
\* the call for a node comes after the call for the container that holds it.
C24_EveryNodeOnceParentFirst ==
    \A i \in Calls("Lookup") :
        /\ Passed(log[i].calls[1]) = [path |-> <<>>, key |-> <<>>, value |-> log[i].in]
        /\ Len(log[i].calls) = 1 + Cardinality(Entries(<<>>, log[i].in))
        /\ \A e \in Entries(<<>>, log[i].in) :
              \E j \in 2..Len(log[i].calls) : CallFor(log[i].calls[j], e)
        /\ \A j \in 2..Len(log[i].calls) :
              \E k \in 1..(j - 1) : ParentCall(log[i].calls, k, j)
        /\ ElementsAscending(log[i].calls)

(***************************************************************************)
(* A caller whose visitor stops the walk or substitutes a value.           *)
(***************************************************************************)
\* The keys the caller's visitor acts at; the root is visited with key "".
ReplaceKeys == {kPub, kPriv, IndexKey(0), kEmpty}

\* What the visitor returns there: the value it was passed, a string, a
\* table holding a nil slice, or an array of tables.
Substitutes ==
    {Same, GoString(Text(<<"x">>)), GoMap(kSecret :> GoNilSlice),
     GoMapSlice(<<GoMap(kSecret :> GoInt(12))>>)}

MaxCalls == 1

\* res = Walk(tree, visit) with the visitor replaceVisit.
DoReplace ==
    /\ Len(log) < MaxCalls
    /\ \E ord \in Orders, at \in ReplaceKeys, with \in Substitutes, cont \in BOOLEAN :
          LET w == Walk([op |-> "replace", ord |-> ord, at |-> at,
                         with |-> with, cont |-> cont], tree, NewAcc(0))
          IN  log' = Append(log, [op |-> "Replace", in |-> tree, at |-> at,
                                  with |-> with, cont |-> cont, res |-> w.v,
                                  calls |-> w.acc.fields])
    /\ UNCHANGED <<tree, data, opts, rnd>>

NextVisit == DoReplace

SpecVisit == InitWalk /\ [][NextVisit]_vars

\* The full path of an entry of a tree.
Full(e) == Append(e.path, e.key)

\* The visitor was called for the entry e.
Called(calls, e) == \E j \in 1..Len(calls) : CallFor(calls[j], e)

\* What replaceVisit returned for the value it was passed.
Returned(c, value) == IF c.with = Same THEN value ELSE c.with

\* The entries of the walked tree at the key where the visitor acts, for
\* which the visitor was called.
ActedAt(c) == {e \in Entries(<<>>, c.in) : e.key = c.at /\ Called(c.calls, e)}

\* C25: when the visitor returns continue = false for a node, no descendant
\* of that node is visited, the result holds the returned value as it is at
\* the node's place, and the node's siblings are still visited.
C25_StopSkipsSubtreeOnly ==
    \A i \in Calls("Replace") :
        ~log[i].cont =>
            IF log[i].at = kEmpty
            THEN /\ Len(log[i].calls) = 1
                 /\ log[i].res = Returned(log[i], log[i].in)
            ELSE \A e \in ActedAt(log[i]) :
                    /\ \A d \in Entries(Full(e), e.value) : ~Called(log[i].calls, d)
                    /\ At(log[i].res, Full(e)) = Returned(log[i], e.value)
                    /\ \A s \in Entries(<<>>, log[i].in) :
                          s.path = e.path => Called(log[i].calls, s)

\* The visitor stopped at a table that has an entry of its own and a sibling,
\* and returned another value for it.
C25_Witness ==
    \E i \in Calls("Replace") :
        /\ ~log[i].cont
        /\ log[i].with = GoString(Text(<<"x">>))
        /\ \E e \in ActedAt(log[i]) :
              /\ Entries(Full(e), e.value) # {}
              /\ \E s \in Entries(<<>>, log[i].in) : s.path = e.path /\ s # e
              /\ At(log[i].res, Full(e)) = log[i].with

\* The entries a container holds itself, under the full path full.
Children(full, v) == {e \in Entries(full, v) : e.path = full}

\* What Walk makes of a value when the visitor returns every value as it is.
Walked(v) == Walk([op |-> "identity", ord |-> "asc"], v, NewAcc(0)).v

\* The pass c went on with the value the visitor returned for the node at
\* full, whose value was orig.
WentOnWithReturned(c, full, orig) ==
    /\ \A n \in Children(full, c.with) : Called(c.calls, n)
    /\ \A d \in Children(full, orig) : ~Called(c.calls, d)
    /\ At(c.res, full) = Walked(c.with)

\* C26: when the visitor returns a different map or sequence for a node with
\* continue = true, Walk visits the children of the returned value and not
\* those of the original value, and the result holds the walked substitution
\* at the node's place.
C26_DescendsIntoSubstitution ==
    \A i \in Calls("Replace") :
        (log[i].cont /\ log[i].with # Same /\ IsContainer(log[i].with)) =>
            IF log[i].at = kEmpty
            THEN WentOnWithReturned(log[i], <<>>, log[i].in)
            ELSE \A e \in ActedAt(log[i]) :
                    WentOnWithReturned(log[i], Full(e), e.value)

(***************************************************************************)
(* Whose containers the output holds.  The maps and sequences the caller   *)
(* built carry the mark own; those walkMap and walkSlice make, and those   *)
(* the decoders build, carry none.                                         *)
(***************************************************************************)
RECURSIVE Own(_)
Own(v) ==
    CASE v.t = "map" ->
            [own |-> TRUE] @@ [v EXCEPT !.m = [k \in DOMAIN v.m |-> Own(v.m[k])]]
      [] v.t \in {"slice", "mapslice"} ->
            [own |-> TRUE] @@ [v EXCEPT !.e = [i \in 1..Len(v.e) |-> Own(v.e[i])]]
      [] OTHER -> v

IsOwn(v) == "own" \in DOMAIN v

\* The trees the caller built: a table beside a leaf, sequences, an array of
\* tables, nil containers, and private containers to seal.
OwnTrees ==
    { GoMap((kPriv :> GoMap(kPub :> GoInt(12))) @@ (kPub :> GoString(Text(<<"a">>)))),
      GoMap(kPub :> GoSlice(<<GoMap(kPub :> GoInt(12)), GoString(Text(<<"a">>))>>)),
      GoMap(kPub :> GoMapSlice(<<GoMap(kPub :> GoInt(12))>>)),
      GoMap((kPub :> GoNilSlice) @@ (kNew :> GoNilMap)),
      GoMap(kPub :> GoMap(kPriv :> GoSlice(<<GoInt(12)>>))),
      GoMap(kPub :> GoMap(kPub :> GoMap(kPub :> EmptyMap))),
      GoMap(kPub :> GoSlice(<<GoSlice(<<GoInt(12)>>)>>)),
      GoMap(kPriv :> GoString(Text(<<"a">>))) }

InitOwn ==
    /\ tree \in {Own(t) : t \in OwnTrees}
    /\ data = NoData
    /\ opts = Options(KeySources(<<"r1">>, <<"i1">>, NoPassphrase), "nil")
    /\ rnd = 1
    /\ log = <<>>

\* Load, the tree toml.Unmarshal built marked as the walk's input.
LoadOwn(doc, options, ord) ==
    LoadParsed(IF doc.ok THEN [doc EXCEPT !.tree = Own(@)] ELSE doc,
               LoadIdentities(setDefaults(options).Keys), ord)

\* result, err := Load(data, opts); tree = result.Tree
DoLoadOwn ==
    /\ Len(log) < MaxOps
    /\ data # NoData
    /\ LastOp # "Load"
    /\ \E ord \in Orders : TookLoad(LoadOwn(tomlUnmarshal(data), opts, ord))
    /\ UNCHANGED <<data, opts, rnd>>

NextOwn == DoReplace \/ DoSave \/ DoLoadOwn

SpecOwn == InitOwn /\ [][NextOwn]_vars

\* The input's own containers among those of v that lie at a place the walk
\* went through: not at or below a node the visitor stopped at (stop holds
\* the key it stops at, or is empty), and not at or below an array of tables.
RECURSIVE OwnWalked(_, _, _)
OwnWalked(stop, key, v) ==
    IF key \in stop \/ ~IsContainer(v) \/ v.t = "mapslice" THEN {}
    ELSE (IF IsOwn(v) THEN {v} ELSE {})
         \cup (IF v.t = "map"
               THEN UNION {OwnWalked(stop, k, v.m[k]) : k \in DOMAIN v.m}
               ELSE UNION {OwnWalked(stop, IndexKey(i - 1), v.e[i]) :
                              i \in 1..Len(v.e)})

\* The keys a Replace pass stopped at.
StopKeys(c) == IF c.cont THEN {} ELSE {c.at}

\* C27: Walk, and the passes Load and Save run with it, never modify the
\* input tree: after a call the tree the caller passed holds what it held
\* before, and every map and sequence that was walked is in the output a
\* container the walk built, not the input's own.
C27_InputKeptOutputBuilt ==
    /\ \A i \in Calls("Replace") \cup Calls("Save") :
          i = Len(log) => tree = log[i].in
    /\ \A i \in Calls("Replace") :
          OwnWalked(StopKeys(log[i]), kEmpty, log[i].res) = {}
    /\ \A i \in Calls("Save") :
          log[i].res.err = "" => OwnWalked({}, kEmpty, log[i].res.walked) = {}
    /\ \A i \in Calls("Load") :
          log[i].res.err = "" => OwnWalked({}, kEmpty, log[i].res.Tree) = {}

\* A walk left a table of the input out (the visitor stopped there, or it
\* lies in an array of tables), so that the output holds the input's own,
\* and rebuilt a table of the input it went through.
C27_Witness ==
    \E i \in Calls("Replace") \cup Calls("Load") :
        LET out == IF log[i].op = "Load" THEN log[i].res.Tree ELSE log[i].res
            in == IF log[i].op = "Load" THEN log[i].res.parsed ELSE log[i].in
        IN  /\ out.t = "map"
            /\ in.t = "map"
            /\ IsOwn(in)
            /\ ~IsOwn(out)
            /\ DOMAIN out.m = DOMAIN in.m
            /\ \E n \in TreeNodes(out) : IsContainer(n.v) /\ IsOwn(n.v)
            /\ \E n \in TreeNodes(in) :
                  /\ n.key # kEmpty
                  /\ n.v.t \in {"map", "slice"}
                  /\ \E o \in TreeNodes(out) :
                        /\ Addr(o) = Addr(n)
                        /\ o.v.t = n.v.t
                        /\ ~IsOwn(o.v)

(***************************************************************************)
(* GetValue and SetValue.                                                  *)
(***************************************************************************)
\* The path resolves in the tree: every segment names a key of the map
\* reached, or is the index marker "[i]" of an element of the sequence
\* reached.
Resolves(root, path) == At(root, path) # Missing

\* C28: GetValue returns the whole tree and found = true for the empty path,
\* and found = false whenever a map segment names a missing key, a sequence
\* segment is not a well-formed in-bounds index marker "[i]", or a scalar is
\* reached before the path is exhausted.
C28_GetValueFailsOffTree ==
    \A i \in Calls("GetValue") :
        /\ log[i].path = <<>> => log[i].res = Found(log[i].in)
        /\ ~Resolves(log[i].in, log[i].path) => ~log[i].res.found

\* The trees the caller of SetValue holds: those of the walks, and a
\* sequence and a scalar as the root.
SetTrees ==
    WalkTrees \cup {GoSlice(<<GoInt(12), GoString(Text(<<"a">>))>>), GoInt(12)}

\* The paths SetValue and GetValue are called with: the empty path, the
\* paths of the tree's entries, each of those followed by a key or an index
\* the tree does not hold, and index segments that are not of the form "[i]".
SetPaths(root) ==
    {<<>>, <<kNew>>, <<kPub, kNew, kNew>>, <<IndexKey(0)>>,
     <<kPub, Text(<<"[", "x", "]">>)>>, <<kPub, Text(<<"[", "1", "x", "]">>)>>,
     <<kPub, Text(<<"[", "0", "x", "]">>), kNew>>}
    \cup {Full(e) : e \in Entries(<<>>, root)}
    \cup {Append(Full(e), k) : e \in Entries(<<>>, root), k \in {kNew, IndexKey(5)}}

SetValues == {GoString(Text(<<"x">>)), GoMap(kSecret :> GoInt(12))}

InitSet ==
    /\ tree \in SetTrees
    /\ data = NoData
    /\ opts = Options(KeySources(<<>>, <<>>, NoPassphrase), "nil")
    /\ rnd = 1
    /\ log = <<>>

\* ok := SetValue(tree, path, value); a panic ends the caller.
DoSetValue ==
    /\ Len(log) < MaxCalls
    /\ \E path \in SetPaths(tree), value \in SetValues :
          LET r == SetValue(tree, path, value)
          IN  /\ tree' = r.data
              /\ log' = Append(log, [op |-> "SetValue", in |-> tree, path |-> path,
                                     value |-> value, ok |-> r.ok,
                                     panic |-> r.panic, out |-> r.data])
    /\ UNCHANGED <<data, opts, rnd>>

NextSet == DoSetValue

SpecSet == InitSet /\ [][NextSet]_vars

\* The path without its last segment, and that segment.
Front(path) == SubSeq(path, 1, Len(path) - 1)

Last(path) == path[Len(path)]

\* The key is the index marker "[i]" of an element of the sequence v.
InBoundsMarker(v, key) == \E j \in 1..Len(v.e) : key = IndexKey(j - 1)

\* C29: SetValue returns false and leaves the tree unchanged for the empty
\* path, for a single-segment path when the root is not a map, when the
\* parent path does not resolve, when the parent is a scalar, and when the
\* final index of a sequence is malformed or out of bounds; it creates no
\* missing intermediate container.
C29_SetValueRefuses ==
    \A i \in Calls("SetValue") :
        (\/ log[i].path = <<>>
         \/ Len(log[i].path) = 1 /\ log[i].in.t # "map"
         \/ Len(log[i].path) > 1 /\ ~Resolves(log[i].in, Front(log[i].path))
         \/ /\ Len(log[i].path) > 1
            /\ Resolves(log[i].in, Front(log[i].path))
            /\ \/ IsLeaf(At(log[i].in, Front(log[i].path)))
               \/ /\ At(log[i].in, Front(log[i].path)).t = "slice"
                  /\ ~InBoundsMarker(At(log[i].in, Front(log[i].path)),
                                     Last(log[i].path)))
        => (~log[i].ok /\ ~log[i].panic /\ log[i].out = log[i].in)

\* a is the beginning of b.
IsPrefix(a, b) == Len(a) <= Len(b) /\ SubSeq(b, 1, Len(a)) = a

\* What GetValue returns for path q after the call is what it returned
\* before; for a path the written path extends, whose container was written
\* into, it is that container still.
SameAsBefore(c, q) ==
    IF IsPrefix(q, c.path)
    THEN /\ GetValue(c.out, q).found = GetValue(c.in, q).found
         /\ GetValue(c.out, q).v.t = GetValue(c.in, q).v.t
    ELSE GetValue(c.out, q) = GetValue(c.in, q)

\* C30: after SetValue(T, P, v) returns true, GetValue(T, P) returns
\* (v, true), a final map key that was absent is there, and every path that
\* neither equals nor extends P resolves to what it resolved to before the
\* call.
C30_SetThenGet ==
    \A i \in Calls("SetValue") :
        log[i].ok =>
            /\ GetValue(log[i].out, log[i].path) = Found(log[i].value)
            /\ GetValue(log[i].out, Front(log[i].path)).v.t = "map" =>
                  Last(log[i].path) \in DOMAIN GetValue(log[i].out, Front(log[i].path)).v.m
            /\ \A q \in SetPaths(log[i].in) \cup SetPaths(log[i].out) :
                  (q # log[i].path /\ ~IsPrefix(log[i].path, q)) =>
                      SameAsBefore(log[i], q)

====
